---- MODULE Spec2Model ----
(***************************************************************************)
(* Privacy Assistant: the scoring -> risk-detection -> confidence ->       *)
(* recommendation pipeline of packages/shared, the action queue of the     *)
(* extension's background worker and the selection state of its popup.     *)
(*                                                                         *)
(* Numbers.  Signal counts and byte estimates are integers.  Every         *)
(* score-shaped value the score engine emits (rawValue, cappedValue,       *)
(* penalty, totalPenalty, score) lies on the 2-decimal grid and is held    *)
(* as an integer number of hundredths.  The score handed to detectRisks    *)
(* is an arbitrary number; it is held as an integer number of thousandths  *)
(* so that values between two neighbouring 2-decimal values exist.  The    *)
(* penalty of a factor is computed as the code computes it, in binary64    *)
(* arithmetic, before it is rounded onto the grid.                         *)
(* Of the numbers beyond the integers, the score engine is given          *)
(* Number.MAX_VALUE, and its sums reach +Infinity; NaN is not modelled.    *)
(***************************************************************************)
EXTENDS Integers, Sequences, FiniteSets, TLC

VARIABLES
    input,      \* the NormalizedAnalysisInput under analysis (flattened record)
    edits,      \* number of fields overwritten since the fixture was cloned
    score,      \* RiskDetectionInput.score, in thousandths
    scoreOut,   \* results returned by computePrivacyScore, in call order
    riskOut,    \* results returned by detectRisks, in call order
    confOut,    \* results returned by deriveConfidence, in call order
    recIn,      \* riskItems of the RiskDetectionOutput handed to generateRecommendations
    recOut,     \* outcomes of generateRecommendations, in call order
    queue,      \* one run of executeImprovePrivacyActionQueue
    popup       \* the state held by mountPopupSelectionState and its calls in flight

vars == <<input, edits, score, scoreOut, riskOut, confOut, recIn, recOut, queue, popup>>

\* Number of fields of a cloned fixture that may be overwritten.
MaxEdits == 2

\* How far outside [0,100] (in thousandths) the scores handed to detectRisks reach.
ScoreMargin == 30

\* Longest list of risk items handed to generateRecommendations on its own.
MaxRiskItems == 3

\* Longest list of selected action ids handed to the action queue.
MaxSelected == 3

\* Most calls of executeSelectedActions the popup is let to have in flight.
MaxInFlight == 2

NULL == "null"

Min(a, b) == IF a <= b THEN a ELSE b

\* A number of points as a number of hundredths.
Hundredths(points) == points * 100

(***************************************************************************)
(* Test fixtures (tests/fixtures/analysisFixtures.ts)                      *)
(***************************************************************************)
baseFixture ==
    [ contentReachable |-> TRUE,
      contentSignalsAvailable |-> TRUE,
      cookieSignalsAvailable |-> TRUE,
      networkSignalsAvailable |-> TRUE,
      thirdPartyScriptDomainCount |-> 0,
      thirdPartyCookieEstimateCount |-> 0,
      localStorageApproxBytes |-> 0,
      sessionStorageApproxBytes |-> 0,
      trackerDomainHitCount |-> 0,
      endpointPatternHitCount |-> 0,
      trackingQueryParamCount |-> 0,
      available |-> TRUE,
      unavailableReason |-> NULL,
      thirdPartyRequestCount |-> 0,
      suspiciousEndpointHitCount |-> 0,
      knownTrackerDomainHitCount |-> 0,
      shortWindowBurstCount |-> 0 ]

lowRiskFixture ==
    [ baseFixture EXCEPT
      !.thirdPartyScriptDomainCount = 2,
      !.thirdPartyCookieEstimateCount = 4,
      !.localStorageApproxBytes = 120000,
      !.sessionStorageApproxBytes = 80000,
      !.trackerDomainHitCount = 1,
      !.endpointPatternHitCount = 1,
      !.trackingQueryParamCount = 1,
      !.thirdPartyRequestCount = 3,
      !.suspiciousEndpointHitCount = 1 ]

mediumRiskFixture ==
    [ baseFixture EXCEPT
      !.thirdPartyScriptDomainCount = 10,
      !.thirdPartyCookieEstimateCount = 20,
      !.localStorageApproxBytes = 1100000,
      !.sessionStorageApproxBytes = 400000,
      !.trackerDomainHitCount = 4,
      !.endpointPatternHitCount = 4,
      !.trackingQueryParamCount = 4,
      !.thirdPartyRequestCount = 30,
      !.suspiciousEndpointHitCount = 5,
      !.knownTrackerDomainHitCount = 2,
      !.shortWindowBurstCount = 3 ]

highRiskFixture ==
    [ baseFixture EXCEPT
      !.thirdPartyScriptDomainCount = 30,
      !.thirdPartyCookieEstimateCount = 80,
      !.localStorageApproxBytes = 5000000,
      !.sessionStorageApproxBytes = 2500000,
      !.trackerDomainHitCount = 16,
      !.endpointPatternHitCount = 14,
      !.trackingQueryParamCount = 12,
      !.thirdPartyRequestCount = 80,
      !.suspiciousEndpointHitCount = 25,
      !.knownTrackerDomainHitCount = 12,
      !.shortWindowBurstCount = 30 ]

partialDataFixture ==
    [ mediumRiskFixture EXCEPT
      !.contentReachable = FALSE,
      !.contentSignalsAvailable = FALSE,
      !.cookieSignalsAvailable = TRUE,
      !.networkSignalsAvailable = FALSE,
      !.available = FALSE,
      !.unavailableReason = "WEBREQUEST_LISTENER_UNAVAILABLE",
      !.thirdPartyRequestCount = 0,
      !.suspiciousEndpointHitCount = 0,
      !.knownTrackerDomainHitCount = 0,
      !.shortWindowBurstCount = 0 ]

Fixtures ==
    { baseFixture, lowRiskFixture, mediumRiskFixture, highRiskFixture, partialDataFixture }

(***************************************************************************)
(* Fields of the input and the values a test or collector may write into   *)
(* them: a negative value, values around the rule threshold of the field   *)
(* and the hard cap of its factor.                                         *)
(***************************************************************************)
StorageFields == { "localStorageApproxBytes", "sessionStorageApproxBytes" }

TrackingFields ==
    { "trackerDomainHitCount", "endpointPatternHitCount", "trackingQueryParamCount" }

NetworkCountFields ==
    { "thirdPartyRequestCount", "suspiciousEndpointHitCount",
      "knownTrackerDomainHitCount", "shortWindowBurstCount" }

NumericFields ==
    { "thirdPartyScriptDomainCount", "thirdPartyCookieEstimateCount" }
        \cup StorageFields \cup TrackingFields \cup NetworkCountFields

SourceFlagFields ==
    { "contentReachable", "contentSignalsAvailable",
      "cookieSignalsAvailable", "networkSignalsAvailable" }

SignalValues(field) ==
    CASE field = "thirdPartyScriptDomainCount" -> { -3, 9, 10, 20 }
      [] field = "thirdPartyCookieEstimateCount" -> { -5, 24, 25, 40 }
      [] field \in StorageFields -> { -1000, 1000, 580000, 2000000, 4000000 }
      [] field \in TrackingFields -> { -2, 2, 12, 30 }
      [] field = "thirdPartyRequestCount" -> { -4, 39, 40, 80 }
      [] field = "suspiciousEndpointHitCount" -> { -1, 14, 15, 80 }
      [] field = "knownTrackerDomainHitCount" -> { -1, 7, 8, 80 }
      [] field = "shortWindowBurstCount" -> { -1, 24, 25, 80 }
      [] field = "unavailableReason" ->
            { NULL, "WEBREQUEST_LISTENER_UNAVAILABLE", "NETWORK_PERMISSION_BLOCKED" }
      [] OTHER -> BOOLEAN

(***************************************************************************)
(* Score engine (scoring/privacyScore.ts)                                  *)
(***************************************************************************)
PRIVACY_SCORE_BOUNDS == [ min |-> 0, max |-> 100 ]

\* The script factor saturating at the script rule's threshold (10) instead
\* of at 20.
SCORE_FACTOR_DEFINITIONS_SCRIPT_CAP_10 ==
    << [ id |-> "third_party_scripts", weight |-> 20, hardCap |-> 10 ],
       [ id |-> "third_party_cookies", weight |-> 20, hardCap |-> 40 ],
       [ id |-> "storage_usage", weight |-> 15, hardCap |-> 4000000 ],
       [ id |-> "tracking_indicators", weight |-> 25, hardCap |-> 30 ],
       [ id |-> "network_suspiciousness", weight |-> 20, hardCap |-> 80 ] >>

SCORE_FACTOR_DEFINITIONS ==
    << [ id |-> "third_party_scripts", weight |-> 20, hardCap |-> 20 ],
       [ id |-> "third_party_cookies", weight |-> 20, hardCap |-> 40 ],
       [ id |-> "storage_usage", weight |-> 15, hardCap |-> 4000000 ],
       [ id |-> "tracking_indicators", weight |-> 25, hardCap |-> 30 ],
       [ id |-> "network_suspiciousness", weight |-> 20, hardCap |-> 80 ] >>

SCORE_FACTOR_IDS_IN_ORDER ==
    [ i \in DOMAIN SCORE_FACTOR_DEFINITIONS |-> SCORE_FACTOR_DEFINITIONS[i].id ]

MAX_REASON_COUNT == 3

BASE_PRIVACY_SCORE == 100

(***************************************************************************)
(* The counts of an input are JavaScript numbers.  The numbers of the      *)
(* model are exact integers, all far below 2^53, and two binary64 values   *)
(* beyond them: Number.MAX_VALUE, the greatest finite number, and          *)
(* +Infinity.  They are held as the two greatest integers TLC has, so "<"  *)
(* and Math.min order them as JavaScript does; "+" goes through plus.      *)
(***************************************************************************)
Infinity == 2147483647

MAX_VALUE == Infinity - 1

\* Number.isFinite(value)
isFinite(value) == value # Infinity

\* a + b: an integer of the model is less than half the gap between
\* Number.MAX_VALUE and its neighbours, so adding it to Number.MAX_VALUE
\* changes nothing; twice Number.MAX_VALUE is beyond the range: Infinity.
plus(a, b) ==
    IF ~isFinite(a) \/ ~isFinite(b) THEN Infinity
    ELSE IF a = MAX_VALUE /\ b = MAX_VALUE THEN Infinity
    ELSE IF a = MAX_VALUE \/ b = MAX_VALUE THEN MAX_VALUE
    ELSE a + b

toFiniteNonNegative(value) == IF ~isFinite(value) \/ value <= 0 THEN 0 ELSE value

(***************************************************************************)
(* JavaScript numbers are IEEE-754 binary64 values, and every "/", "*" and *)
(* "+" returns the binary64 value nearest to the exact result, an exact    *)
(* tie going to the even significand.  A non-negative binary64 value is    *)
(* held as [ digits, exponent ]: digits is a natural number written in     *)
(* base 2^9, most significant digit first and without leading zeros, of    *)
(* at most 53 significant bits; the value is that number times             *)
(* 2^exponent.  Zero has no digits.                                        *)
(***************************************************************************)
DigitBits == 9

DigitBase == 2 ^ DigitBits

SignificandBits == 53

\* Number.EPSILON = 2^-52
EpsilonExponent == 0 - 52

DoubleZero == [ digits |-> << >>, exponent |-> 0 ]

RECURSIVE bitLength(_)
bitLength(digit) == IF digit = 0 THEN 0 ELSE 1 + bitLength(digit \div 2)

RECURSIVE stripLeadingZeros(_)
stripLeadingZeros(digits) ==
    IF digits # << >> /\ Head(digits) = 0 THEN stripLeadingZeros(Tail(digits))
    ELSE digits

anyNonZero(digits) == \E i \in DOMAIN digits : digits[i] # 0

zeroDigits(n) == [ i \in 1 .. n |-> 0 ]

\* digits + amount * DigitBase^(Len(digits) - at), carried to the left.
RECURSIVE addAtDigit(_, _, _)
addAtDigit(digits, at, amount) ==
    IF amount = 0 THEN digits
    ELSE IF at = 0 THEN << amount >> \o digits
    ELSE LET v == digits[at] + amount
         IN  addAtDigit([ digits EXCEPT ![at] = v % DigitBase ], at - 1, v \div DigitBase)

\* The binary64 value nearest to digits * 2^exponent (+ a non-zero amount
\* below the last digit when sticky): round to nearest, ties to even.
roundToDouble(digitsIn, exponent, sticky) ==
    LET digits == stripLeadingZeros(digitsIn)
        n == Len(digits)
    IN  IF n = 0 THEN DoubleZero
        ELSE LET len == DigitBits * (n - 1) + bitLength(digits[1])
             IN  IF len <= SignificandBits
                 THEN [ digits |-> digits, exponent |-> exponent ]
                 ELSE LET shift == len - SignificandBits
                          a == shift \div DigitBits
                          b == shift % DigitBits
                          kept == SubSeq(digits, 1, n - a)
                          dropped == SubSeq(digits, n - a + 1, n)
                          last == kept[n - a]
                          unit == 2 ^ b
                          lowBits == last % unit
                          below == anyNonZero(dropped) \/ sticky
                          belowFirst == anyNonZero(Tail(dropped)) \/ sticky
                          aboveHalf ==
                              IF b > 0
                              THEN lowBits > unit \div 2
                                   \/ (lowBits = unit \div 2 /\ below)
                              ELSE dropped[1] > DigitBase \div 2
                                   \/ (dropped[1] = DigitBase \div 2 /\ belowFirst)
                          exactHalf ==
                              IF b > 0
                              THEN lowBits = unit \div 2 /\ ~below
                              ELSE dropped[1] = DigitBase \div 2 /\ ~belowFirst
                          odd == (last \div unit) % 2 = 1
                          truncated == [ kept EXCEPT ![n - a] = last - lowBits ]
                      IN  [ digits |->
                                IF aboveHalf \/ (exactHalf /\ odd)
                                THEN addAtDigit(truncated, n - a, unit)
                                ELSE truncated,
                            exponent |-> exponent + DigitBits * a ]

\* Long division of remainder / divisor, one base-2^9 digit at a time, until
\* the quotient is exact or has eight digits from its first non-zero one
\* (at least 64 bits, more than the 53 + 2 that rounding needs).
RECURSIVE divisionDigits(_, _, _, _, _)
divisionDigits(digits, exponent, remainder, divisor, significant) ==
    IF remainder = 0 \/ significant >= 8
    THEN [ digits |-> digits, exponent |-> exponent, remainder |-> remainder ]
    ELSE LET v == remainder * DigitBase
             digit == v \div divisor
         IN  divisionDigits(Append(digits, digit), exponent - DigitBits,
                            v % divisor, divisor,
                            IF significant > 0 \/ digit > 0
                            THEN significant + 1 ELSE significant)

\* dividend / divisor for integers 0 <= dividend <= divisor.
divideDouble(dividend, divisor) ==
    LET whole == dividend \div divisor
        quotient == divisionDigits(<< whole >>, 0, dividend % divisor, divisor,
                                   IF whole > 0 THEN 1 ELSE 0)
    IN  roundToDouble(quotient.digits, quotient.exponent, quotient.remainder # 0)

\* The digits of digits[1..i] * factor + carry.
RECURSIVE timesDigits(_, _, _, _)
timesDigits(digits, factor, i, carry) ==
    IF i = 0 THEN (IF carry = 0 THEN << >> ELSE << carry >>)
    ELSE LET v == digits[i] * factor + carry
         IN  Append(timesDigits(digits, factor, i - 1, v \div DigitBase),
                    v % DigitBase)

\* x * factor for an integer 0 < factor < 2^9.
multiplyDouble(x, factor) ==
    roundToDouble(timesDigits(x.digits, factor, Len(x.digits), 0), x.exponent, FALSE)

\* x with zero digits appended until its exponent is at most the target.
withExponentAtMost(x, target) ==
    IF x.exponent <= target THEN x
    ELSE LET more == (x.exponent - target + DigitBits - 1) \div DigitBits
         IN  [ digits |-> x.digits \o zeroDigits(more),
               exponent |-> x.exponent - DigitBits * more ]

\* digits with zero digits put in front until there are at least n.
withAtLeastDigits(digits, n) ==
    IF Len(digits) >= n THEN digits ELSE zeroDigits(n - Len(digits)) \o digits

\* x + Number.EPSILON
addEpsilon(x) ==
    IF x.digits = << >> THEN [ digits |-> << 1 >>, exponent |-> EpsilonExponent ]
    ELSE LET fine == withExponentAtMost(x, EpsilonExponent)
             position == EpsilonExponent - fine.exponent
             a == position \div DigitBits
             b == position % DigitBits
             digits == withAtLeastDigits(fine.digits, a + 1)
         IN  roundToDouble(addAtDigit(digits, Len(digits) - a, 2 ^ b),
                           fine.exponent, FALSE)

RECURSIVE digitsValue(_, _)
digitsValue(digits, n) ==
    IF n = 0 THEN 0 ELSE digitsValue(digits, n - 1) * DigitBase + digits[n]

\* Math.round(x) for 0 <= x < 2^22: the nearest integer, a half going up.
mathRound(x) ==
    IF x.digits = << >> THEN 0
    ELSE LET fine == withExponentAtMost(x, 0)
             fraction == 0 - fine.exponent
             a == fraction \div DigitBits
             b == fraction % DigitBits
             digits == withAtLeastDigits(fine.digits, a + 1)
             n == Len(digits)
             last == digits[n - a]
             unit == 2 ^ b
             whole == digitsValue(digits, n - a - 1) * (DigitBase \div unit)
                          + last \div unit
             halfOrMore ==
                 IF b > 0 THEN last % unit >= unit \div 2
                 ELSE a > 0 /\ digits[n - a + 1] >= DigitBase \div 2
         IN  whole + (IF halfOrMore THEN 1 ELSE 0)

\* roundStableHalfUp2dp(value) for a binary64 value, in hundredths:
\* Math.round((value + Number.EPSILON) * 100), the final "/ 100" being the
\* binary64 value nearest to that many hundredths.
roundDoubleStableHalfUp2dp(value) == mathRound(multiplyDouble(addEpsilon(value), 100))

\* roundStableHalfUp2dp(num/den) for an argument that is an integer or a sum
\* or difference of at most six 2-decimal values: the binary64 argument is
\* within 10^-12 of a 2-decimal value, so the result is that value.  In
\* hundredths: the nearest 2-decimal value to num/den, an exact half going up.
\* A value that is not finite counts as 0, and (Number.MAX_VALUE + EPSILON) *
\* 100 is beyond the binary64 range: Infinity, which Math.round and "/ 100"
\* leave as it is.
roundStableHalfUp2dp(num, den) ==
    LET safe == IF isFinite(num) THEN num ELSE 0
        q == safe \div den
        r == safe % den
    IN  IF safe = MAX_VALUE
        THEN Infinity
        ELSE q * 100 + (200 * r + den) \div (2 * den)

\* The availability gate forgotten: the network counts are summed regardless.
computeRawFactorValueUngated(factorId, in) ==
    IF factorId = "third_party_scripts"
    THEN toFiniteNonNegative(in.thirdPartyScriptDomainCount)
    ELSE IF factorId = "third_party_cookies"
    THEN toFiniteNonNegative(in.thirdPartyCookieEstimateCount)
    ELSE IF factorId = "storage_usage"
    THEN toFiniteNonNegative(plus(in.localStorageApproxBytes, in.sessionStorageApproxBytes))
    ELSE IF factorId = "tracking_indicators"
    THEN toFiniteNonNegative(plus(plus(in.trackerDomainHitCount,
                                       in.endpointPatternHitCount),
                                  in.trackingQueryParamCount))
    ELSE toFiniteNonNegative(plus(plus(plus(in.thirdPartyRequestCount,
                                            in.suspiciousEndpointHitCount),
                                       in.knownTrackerDomainHitCount),
                                  in.shortWindowBurstCount))

computeRawFactorValue(factorId, in) ==
    IF factorId = "third_party_scripts"
    THEN toFiniteNonNegative(in.thirdPartyScriptDomainCount)
    ELSE IF factorId = "third_party_cookies"
    THEN toFiniteNonNegative(in.thirdPartyCookieEstimateCount)
    ELSE IF factorId = "storage_usage"
    THEN toFiniteNonNegative(plus(in.localStorageApproxBytes, in.sessionStorageApproxBytes))
    ELSE IF factorId = "tracking_indicators"
    THEN toFiniteNonNegative(plus(plus(in.trackerDomainHitCount,
                                       in.endpointPatternHitCount),
                                  in.trackingQueryParamCount))
    ELSE IF ~in.available
    THEN 0
    ELSE toFiniteNonNegative(plus(plus(plus(in.thirdPartyRequestCount,
                                            in.suspiciousEndpointHitCount),
                                       in.knownTrackerDomainHitCount),
                                  in.shortWindowBurstCount))

clampPrivacyScore(value) ==
    IF value < Hundredths(PRIVACY_SCORE_BOUNDS.min)
    THEN Hundredths(PRIVACY_SCORE_BOUNDS.min)
    ELSE IF value > Hundredths(PRIVACY_SCORE_BOUNDS.max)
    THEN Hundredths(PRIVACY_SCORE_BOUNDS.max)
    ELSE value

\* The cap forgotten: the raw value goes into the penalty as it is.
capRawValueUncapped(rawValue, hardCap) == rawValue

capRawValue(rawValue, hardCap) == Min(rawValue, hardCap)

\* roundStableHalfUp2dp(factor.weight * normalizedPenaltyRatio)
factorPenalty(factor, cappedValue) ==
    LET normalizedPenaltyRatio ==
            IF factor.hardCap > 0
            THEN divideDouble(cappedValue, factor.hardCap)
            ELSE DoubleZero
    IN  roundDoubleStableHalfUp2dp(multiplyDouble(normalizedPenaltyRatio, factor.weight))

contributionOf(factor, in) ==
    LET rawValue == computeRawFactorValue(factor.id, in)
        cappedValue == capRawValue(rawValue, factor.hardCap)
    IN  [ factorId |-> factor.id,
          rawValue |-> roundStableHalfUp2dp(rawValue, 1),
          cappedValue |-> roundStableHalfUp2dp(cappedValue, 1),
          hardCap |-> factor.hardCap,
          weight |-> factor.weight,
          penalty |-> factorPenalty(factor, cappedValue) ]

RECURSIVE sumPenalties(_, _)
sumPenalties(contributions, n) ==
    IF n = 0 THEN 0
    ELSE sumPenalties(contributions, n - 1) + contributions[n].penalty

\* The sum of contributions' weight * cappedValue / hardCap before any rounding,
\* rounded once: what totalPenalty would be if only the final sum were rounded.
\* PenaltyDenominator is a common multiple of the five hard caps.
PenaltyDenominator == 3 * SCORE_FACTOR_DEFINITIONS[3].hardCap

RECURSIVE sumUnroundedPenalties(_, _)
sumUnroundedPenalties(contributions, n) ==
    IF n = 0 THEN 0
    ELSE sumUnroundedPenalties(contributions, n - 1)
         + contributions[n].weight * (contributions[n].cappedValue \div 100)
           * (PenaltyDenominator \div contributions[n].hardCap)

totalPenaltyRoundedOnce(contributions) ==
    LET num == sumUnroundedPenalties(contributions, Len(contributions))
        q == num \div PenaltyDenominator
        r == num % PenaltyDenominator
    IN  q * 100 + (100 * r + PenaltyDenominator \div 2) \div PenaltyDenominator

totalPenaltyOf(contributions) ==
    roundStableHalfUp2dp(sumPenalties(contributions, Len(contributions)), 100)

\* b.penalty - a.penalty, else the difference of the factors' canonical positions.
indexOfFactor(factorId) ==
    CHOOSE i \in DOMAIN SCORE_FACTOR_IDS_IN_ORDER : SCORE_FACTOR_IDS_IN_ORDER[i] = factorId

\* Ascending instead of descending penalty.
compareContributionsAscending(a, b) ==
    IF b.penalty # a.penalty
    THEN a.penalty - b.penalty
    ELSE indexOfFactor(a.factorId) - indexOfFactor(b.factorId)

compareContributions(a, b) ==
    IF b.penalty # a.penalty
    THEN b.penalty - a.penalty
    ELSE indexOfFactor(a.factorId) - indexOfFactor(b.factorId)

\* Array.prototype.sort with compareContributions: a stable sort.
RECURSIVE insertContribution(_, _)
insertContribution(sorted, c) ==
    IF sorted = << >> THEN << c >>
    ELSE IF compareContributions(c, Head(sorted)) < 0
    THEN << c >> \o sorted
    ELSE << Head(sorted) >> \o insertContribution(Tail(sorted), c)

RECURSIVE sortContributions(_, _)
sortContributions(contributions, n) ==
    IF n = 0 THEN << >>
    ELSE insertContribution(sortContributions(contributions, n - 1), contributions[n])

\* Math.round(rawValue) of a value held in hundredths.
buildReasonText(contribution) ==
    [ unit |-> IF contribution.factorId = "storage_usage" THEN "bytes" ELSE "signals",
      amount |-> IF isFinite(contribution.rawValue)
                 THEN (contribution.rawValue + 50) \div 100
                 ELSE Infinity ]

strongestNegativeReasonsOf(contributions) ==
    LET positive == SelectSeq(contributions, LAMBDA c : c.penalty > 0)
        ordered == sortContributions(positive, Len(positive))
        top == SubSeq(ordered, 1, Min(MAX_REASON_COUNT, Len(ordered)))
    IN  [ i \in DOMAIN top |->
            [ factorId |-> top[i].factorId,
              penalty |-> top[i].penalty,
              reason |-> buildReasonText(top[i]) ] ]

computePrivacyScore(in) ==
    LET contributions ==
            [ i \in DOMAIN SCORE_FACTOR_DEFINITIONS |->
                contributionOf(SCORE_FACTOR_DEFINITIONS[i], in) ]
        totalPenalty == totalPenaltyOf(contributions)
        unclampedScore ==
            roundStableHalfUp2dp(Hundredths(BASE_PRIVACY_SCORE) - totalPenalty, 100)
        finalScore == roundStableHalfUp2dp(clampPrivacyScore(unclampedScore), 100)
    IN  [ baseScore |-> Hundredths(BASE_PRIVACY_SCORE),
          totalPenalty |-> totalPenalty,
          score |-> finalScore,
          roundingStrategy |-> "stable_half_up_2dp",
          contributions |-> contributions,
          strongestNegativeReasons |-> strongestNegativeReasonsOf(contributions) ]

(***************************************************************************)
(* Risk detector (risks/detectRisks.ts).  The score, the band limits and   *)
(* the threshold of the overall_score rule are in thousandths; the other   *)
(* thresholds are in the unit of their metric.  Titles and the static      *)
(* explanation texts of rules and bands are left out.                      *)
(***************************************************************************)
RISK_RULESET_VERSION == "1.0.0"

OVERALL_RISK_FALLBACK ==
    [ level |-> "medium", minInclusive |-> 0, maxInclusive |-> 100000,
      explanation |-> "fallback" ]

OVERALL_SCORE_BANDS ==
    << [ level |-> "high", minInclusive |-> 0, maxInclusive |-> 39990,
         explanation |-> "high" ],
       [ level |-> "medium", minInclusive |-> 40000, maxInclusive |-> 69990,
         explanation |-> "medium" ],
       [ level |-> "low", minInclusive |-> 70000, maxInclusive |-> 100000,
         explanation |-> "low" ] >>

RISK_RULES ==
    << [ id |-> "overall_score_high", severity |-> "high", mitigationPriority |-> "p1",
         source |-> "overall_score", operator |-> "<", threshold |-> 40000 ],
       [ id |-> "third_party_cookie_volume", severity |-> "high", mitigationPriority |-> "p1",
         source |-> "cookies", operator |-> ">=", threshold |-> 25 ],
       [ id |-> "third_party_script_domains", severity |-> "medium", mitigationPriority |-> "p2",
         source |-> "scripts", operator |-> ">=", threshold |-> 10 ],
       [ id |-> "persistent_storage_footprint", severity |-> "medium", mitigationPriority |-> "p2",
         source |-> "storage", operator |-> ">=", threshold |-> 2000000 ],
       [ id |-> "tracking_indicator_density", severity |-> "high", mitigationPriority |-> "p1",
         source |-> "tracking", operator |-> ">=", threshold |-> 12 ],
       [ id |-> "network_heavy_third_party_requests", severity |-> "medium",
         mitigationPriority |-> "p2",
         source |-> "network", operator |-> ">=", threshold |-> 40 ],
       [ id |-> "network_suspicious_endpoint_repetition", severity |-> "high",
         mitigationPriority |-> "p1",
         source |-> "network", operator |-> ">=", threshold |-> 15 ],
       [ id |-> "network_tracker_domain_concentration", severity |-> "high",
         mitigationPriority |-> "p1",
         source |-> "network", operator |-> ">=", threshold |-> 8 ],
       [ id |-> "network_short_window_burst", severity |-> "medium", mitigationPriority |-> "p2",
         source |-> "network", operator |-> ">=", threshold |-> 25 ] >>

\* The getActualValue accessor of each rule; in is a RiskDetectionInput.
getActualValue(ruleId, in) ==
    CASE ruleId = "overall_score_high" -> in.score
      [] ruleId = "third_party_cookie_volume" -> in.normalized.thirdPartyCookieEstimateCount
      [] ruleId = "third_party_script_domains" -> in.normalized.thirdPartyScriptDomainCount
      [] ruleId = "persistent_storage_footprint" ->
            in.normalized.localStorageApproxBytes + in.normalized.sessionStorageApproxBytes
      [] ruleId = "tracking_indicator_density" ->
            in.normalized.trackerDomainHitCount
            + in.normalized.endpointPatternHitCount
            + in.normalized.trackingQueryParamCount
      [] ruleId = "network_heavy_third_party_requests" ->
            IF in.normalized.available THEN in.normalized.thirdPartyRequestCount ELSE 0
      [] ruleId = "network_suspicious_endpoint_repetition" ->
            IF in.normalized.available THEN in.normalized.suspiciousEndpointHitCount ELSE 0
      [] ruleId = "network_tracker_domain_concentration" ->
            IF in.normalized.available THEN in.normalized.knownTrackerDomainHitCount ELSE 0
      [] ruleId = "network_short_window_burst" ->
            IF in.normalized.available THEN in.normalized.shortWindowBurstCount ELSE 0

\* The clamp forgotten.
clampToScoreRangeUnclamped(value) == value

clampToScoreRange(value) ==
    IF value < 0 THEN 0
    ELSE IF value > 100000 THEN 100000
    ELSE value

\* ">=" read as ">".
compareThresholdStrict(actualValue, operator, threshold) ==
    IF operator = ">=" THEN actualValue > threshold
    ELSE IF operator = ">" THEN actualValue > threshold
    ELSE IF operator = "<=" THEN actualValue <= threshold
    ELSE actualValue < threshold

\* "<" read as "<=".
compareThresholdLessAsAtMost(actualValue, operator, threshold) ==
    IF operator = ">=" THEN actualValue >= threshold
    ELSE IF operator = ">" THEN actualValue > threshold
    ELSE actualValue <= threshold

compareThreshold(actualValue, operator, threshold) ==
    IF operator = ">=" THEN actualValue >= threshold
    ELSE IF operator = ">" THEN actualValue > threshold
    ELSE IF operator = "<=" THEN actualValue <= threshold
    ELSE actualValue < threshold

\* Array.prototype.find: the first band, in table order, that holds the score.
resolveOverallRisk(scoreValue) ==
    LET safeScore == clampToScoreRange(scoreValue)
        matching == { i \in DOMAIN OVERALL_SCORE_BANDS :
                        /\ safeScore >= OVERALL_SCORE_BANDS[i].minInclusive
                        /\ safeScore <= OVERALL_SCORE_BANDS[i].maxInclusive }
    IN  IF matching # {}
        THEN [ band |-> OVERALL_SCORE_BANDS[CHOOSE i \in matching :
                                               \A j \in matching : i <= j],
               fallbackUsed |-> FALSE ]
        ELSE [ band |-> OVERALL_RISK_FALLBACK, fallbackUsed |-> TRUE ]

\* The synthetic item given the severity and priority of a network rule.
createNetworkUnavailableRiskAsRule(in) ==
    [ id |-> "network_signals_unavailable",
      explanation |-> << "skipped because network signals are unavailable" >>,
      severity |-> "medium",
      mitigationPriority |-> "p2",
      source |-> "network",
      operator |-> "<",
      threshold |-> 1,
      actualValue |-> 0 ]

\* A string is truthy unless it is null (or empty).
createNetworkUnavailableRisk(in) ==
    [ id |-> "network_signals_unavailable",
      explanation |->
        IF in.normalized.unavailableReason # NULL
        THEN << "skipped", in.normalized.unavailableReason >>
        ELSE << "skipped because network signals are unavailable" >>,
      severity |-> "low",
      mitigationPriority |-> "p3",
      source |-> "network",
      operator |-> "<",
      threshold |-> 1,
      actualValue |-> 0 ]

\* The items one rule contributes to the flatMap: none or one.
ruleFires(rule, in) ==
    /\ ~(rule.source = "network" /\ ~in.normalized.available)
    /\ compareThreshold(getActualValue(rule.id, in), rule.operator, rule.threshold)

riskItemOf(rule, in) ==
    [ id |-> rule.id,
      explanation |-> << rule.id >>,
      severity |-> rule.severity,
      mitigationPriority |-> rule.mitigationPriority,
      source |-> rule.source,
      operator |-> rule.operator,
      threshold |-> rule.threshold,
      actualValue |-> getActualValue(rule.id, in) ]

\* The rules walked from the last to the first.
RECURSIVE flatMapRulesReversed(_, _)
flatMapRulesReversed(n, in) ==
    IF n = 0 THEN << >>
    ELSE (IF ruleFires(RISK_RULES[n], in)
          THEN << riskItemOf(RISK_RULES[n], in) >>
          ELSE << >>)
         \o flatMapRulesReversed(n - 1, in)

RECURSIVE flatMapRules(_, _)
flatMapRules(n, in) ==
    IF n = 0 THEN << >>
    ELSE flatMapRules(n - 1, in)
         \o (IF ruleFires(RISK_RULES[n], in)
             THEN << riskItemOf(RISK_RULES[n], in) >>
             ELSE << >>)

detectRisks(in) ==
    LET overall == resolveOverallRisk(in.score)
        networkSignalsAvailable == in.normalized.available
        fired == flatMapRules(Len(RISK_RULES), in)
        riskItems == IF ~networkSignalsAvailable
                     THEN Append(fired, createNetworkUnavailableRisk(in))
                     ELSE fired
    IN  [ rulesetVersion |-> RISK_RULESET_VERSION,
          overallRisk |-> overall.band.level,
          overallExplanation |-> overall.band.explanation,
          mappingFallbackUsed |-> overall.fallbackUsed,
          networkFallbackUsed |-> ~networkSignalsAvailable,
          networkUnavailableReason |->
              IF networkSignalsAvailable THEN NULL ELSE in.normalized.unavailableReason,
          riskItems |-> riskItems ]

(***************************************************************************)
(* Confidence assessor (confidence/deriveConfidence.ts).  Confidence       *)
(* scores are whole points.                                                *)
(***************************************************************************)
CONFIDENCE_RULESET_VERSION == "1.0.0"

MAX_CONFIDENCE_SCORE == 100

MIN_CONFIDENCE_SCORE == 0

\* The rules listed by descending penalty.
CONFIDENCE_PENALTY_RULES_BY_PENALTY ==
    << [ code |-> "CONTENT_SIGNALS_UNAVAILABLE", penalty |-> 35,
         flag |-> "contentSignalsAvailable" ],
       [ code |-> "NETWORK_SIGNALS_UNAVAILABLE", penalty |-> 25,
         flag |-> "networkSignalsAvailable" ],
       [ code |-> "CONTENT_UNREACHABLE", penalty |-> 20,
         flag |-> "contentReachable" ],
       [ code |-> "COOKIE_SIGNALS_UNAVAILABLE", penalty |-> 20,
         flag |-> "cookieSignalsAvailable" ] >>

CONFIDENCE_PENALTY_RULES ==
    << [ code |-> "CONTENT_UNREACHABLE", penalty |-> 20,
         flag |-> "contentReachable" ],
       [ code |-> "CONTENT_SIGNALS_UNAVAILABLE", penalty |-> 35,
         flag |-> "contentSignalsAvailable" ],
       [ code |-> "COOKIE_SIGNALS_UNAVAILABLE", penalty |-> 20,
         flag |-> "cookieSignalsAvailable" ],
       [ code |-> "NETWORK_SIGNALS_UNAVAILABLE", penalty |-> 25,
         flag |-> "networkSignalsAvailable" ] >>

\* The network rule reading networkSignals.available instead of its source flag.
shouldApplyOnNetworkSignals(rule, in) ==
    IF rule.code = "NETWORK_SIGNALS_UNAVAILABLE" THEN ~in.available ELSE ~in[rule.flag]

\* rule.shouldApply(input): the rule's source flag is not set.
shouldApply(rule, in) == ~in[rule.flag]

\* rule.message(input): only the network rule's text depends on the input.
confidenceMessage(rule, in) ==
    IF rule.code = "NETWORK_SIGNALS_UNAVAILABLE" /\ in.unavailableReason # NULL
    THEN << rule.code, in.unavailableReason >>
    ELSE << rule.code >>

clampConfidenceScore(value) ==
    IF value < MIN_CONFIDENCE_SCORE THEN MIN_CONFIDENCE_SCORE
    ELSE IF value > MAX_CONFIDENCE_SCORE THEN MAX_CONFIDENCE_SCORE
    ELSE value

\* The high limit compared with ">" instead of ">=".
mapConfidenceLevelStrict(value) ==
    IF value > 80 THEN "high"
    ELSE IF value >= 50 THEN "medium"
    ELSE "low"

mapConfidenceLevel(value) ==
    IF value >= 80 THEN "high"
    ELSE IF value >= 50 THEN "medium"
    ELSE "low"

\* The loop over CONFIDENCE_PENALTY_RULES after its first n rules:
\* the running score and the reasons pushed so far.
RECURSIVE applyPenaltyRules(_, _)
applyPenaltyRules(n, in) ==
    IF n = 0
    THEN [ confidenceScore |-> MAX_CONFIDENCE_SCORE, reasons |-> << >> ]
    ELSE LET before == applyPenaltyRules(n - 1, in)
             rule == CONFIDENCE_PENALTY_RULES[n]
         IN  IF ~shouldApply(rule, in)
             THEN before
             ELSE [ confidenceScore |-> before.confidenceScore - rule.penalty,
                    reasons |-> Append(before.reasons,
                                       [ code |-> rule.code,
                                         message |-> confidenceMessage(rule, in) ]) ]

deriveConfidence(in) ==
    LET done == applyPenaltyRules(Len(CONFIDENCE_PENALTY_RULES), in)
        boundedScore == clampConfidenceScore(done.confidenceScore)
    IN  [ rulesetVersion |-> CONFIDENCE_RULESET_VERSION,
          score |-> boundedScore,
          level |-> mapConfidenceLevel(boundedScore),
          reasons |-> done.reasons ]

(***************************************************************************)
(* Recommendation generator (recommendations/generateRecommendations.ts).  *)
(* A Map is held as the sequence of its values in insertion order, a Set   *)
(* as the sequence of its members in insertion order.                      *)
(***************************************************************************)
RECOMMENDATION_RULESET_VERSION == "1.0.0"

RECOMMENDATION_CATALOG ==
    [ reduce_third_party_cookies |->
          [ actionId |-> "reduce_third_party_cookies", defaultPriority |-> "p1" ],
      limit_third_party_scripts |->
          [ actionId |-> "limit_third_party_scripts", defaultPriority |-> "p2" ],
      clear_site_storage_data |->
          [ actionId |-> "clear_site_storage_data", defaultPriority |-> "p2" ],
      block_known_trackers |->
          [ actionId |-> "block_known_trackers", defaultPriority |-> "p1" ],
      review_tracking_permissions |->
          [ actionId |-> "review_tracking_permissions", defaultPriority |-> "p2" ],
      harden_network_privacy |->
          [ actionId |-> "harden_network_privacy", defaultPriority |-> "p1" ] ]

RISK_TO_RECOMMENDATION_MAP ==
    [ overall_score_high |->
          << "block_known_trackers", "reduce_third_party_cookies",
             "harden_network_privacy" >>,
      third_party_cookie_volume |-> << "reduce_third_party_cookies" >>,
      third_party_script_domains |->
          << "limit_third_party_scripts", "review_tracking_permissions" >>,
      persistent_storage_footprint |-> << "clear_site_storage_data" >>,
      tracking_indicator_density |->
          << "block_known_trackers", "harden_network_privacy" >>,
      network_heavy_third_party_requests |->
          << "harden_network_privacy", "block_known_trackers" >>,
      network_suspicious_endpoint_repetition |->
          << "harden_network_privacy", "block_known_trackers" >>,
      network_tracker_domain_concentration |->
          << "block_known_trackers", "harden_network_privacy" >>,
      network_short_window_burst |-> << "harden_network_privacy" >> ]

\* RISK_TO_RECOMMENDATION_MAP is a frozen object literal: a key it does not
\* own is looked up on Object.prototype, whose members are these.
OBJECT_PROTOTYPE_KEYS ==
    { "constructor", "__proto__", "hasOwnProperty", "isPrototypeOf",
      "propertyIsEnumerable", "toLocaleString", "toString", "valueOf",
      "__defineGetter__", "__defineSetter__", "__lookupGetter__",
      "__lookupSetter__" }

\* What "for (const actionId of actionIds)" cannot iterate: a function or
\* Object.prototype itself.
NOT_ITERABLE == << "not iterable" >>

\* RISK_TO_RECOMMENDATION_MAP[risk.id] ?? []
lookupActionIds(riskId) ==
    IF riskId \in DOMAIN RISK_TO_RECOMMENDATION_MAP
    THEN RISK_TO_RECOMMENDATION_MAP[riskId]
    ELSE IF riskId \in OBJECT_PROTOTYPE_KEYS THEN NOT_ITERABLE
    ELSE << >>

RISK_SEVERITY_ORDER == [ high |-> 0, medium |-> 1, low |-> 2 ]

PRIORITY_ORDER == [ p1 |-> 0, p2 |-> 1, p3 |-> 2 ]

\* The severity already accumulated is kept.
chooseExistingSeverity(a, b) == a

chooseHigherSeverity(a, b) ==
    IF RISK_SEVERITY_ORDER[a] <= RISK_SEVERITY_ORDER[b] THEN a ELSE b

\* The second priority wins: the catalog default is dropped at emission.
chooseSecondPriority(a, b) == b

chooseHigherPriority(a, b) ==
    IF PRIORITY_ORDER[a] <= PRIORITY_ORDER[b] THEN a ELSE b

\* The risk ids and action ids of the program in the order localeCompare
\* gives them (they are lower-case ASCII words that first differ in a letter).
IDS_IN_LOCALE_ORDER ==
    << "block_known_trackers", "clear_site_storage_data", "constructor",
       "harden_network_privacy", "limit_third_party_scripts",
       "network_heavy_third_party_requests", "network_short_window_burst",
       "network_signals_unavailable", "network_suspicious_endpoint_repetition",
       "network_tracker_domain_concentration", "overall_score_high",
       "persistent_storage_footprint", "reduce_third_party_cookies",
       "review_tracking_permissions", "third_party_cookie_volume",
       "third_party_script_domains", "tracking_indicator_density" >>

localeRank(id) == CHOOSE i \in DOMAIN IDS_IN_LOCALE_ORDER : IDS_IN_LOCALE_ORDER[i] = id

\* left.localeCompare(right): negative, zero or positive.
localeCompare(left, right) == localeRank(left) - localeRank(right)

\* Stable insertion of one id into an already sorted sequence.
RECURSIVE insertRiskId(_, _)
insertRiskId(sorted, id) ==
    IF sorted = << >> THEN << id >>
    ELSE IF localeCompare(id, sorted[Len(sorted)]) >= 0 THEN Append(sorted, id)
    ELSE Append(insertRiskId(SubSeq(sorted, 1, Len(sorted) - 1), id),
                sorted[Len(sorted)])

\* [...riskIds].sort(localeCompare), over the first n ids.
RECURSIVE sortRiskIdsPrefix(_, _)
sortRiskIdsPrefix(riskIds, n) ==
    IF n = 0 THEN << >>
    ELSE insertRiskId(sortRiskIdsPrefix(riskIds, n - 1), riskIds[n])

\* The ids left in the order in which they entered the set.
sortRiskIdsSkipped(riskIds) == riskIds

sortRiskIdsStable(riskIds) == sortRiskIdsPrefix(riskIds, Len(riskIds))

\* Severity, then action id: the priority is not compared.
compareRecommendationsWithoutPriority(left, right) ==
    LET bySeverity == RISK_SEVERITY_ORDER[left.severity]
                          - RISK_SEVERITY_ORDER[right.severity]
    IN  IF bySeverity # 0 THEN bySeverity
        ELSE localeCompare(left.actionId, right.actionId)

compareRecommendations(left, right) ==
    LET bySeverity == RISK_SEVERITY_ORDER[left.severity]
                          - RISK_SEVERITY_ORDER[right.severity]
        byPriority == PRIORITY_ORDER[left.priority] - PRIORITY_ORDER[right.priority]
    IN  IF bySeverity # 0 THEN bySeverity
        ELSE IF byPriority # 0 THEN byPriority
        ELSE localeCompare(left.actionId, right.actionId)

\* accumulators.get(actionId): the position of the entry, 0 when there is none.
accumulatorIndex(accumulators, actionId) ==
    LET hits == { i \in DOMAIN accumulators : accumulators[i].actionId = actionId }
    IN  IF hits = {} THEN 0 ELSE CHOOSE i \in hits : TRUE

\* A list push instead of a set add: a member already present is added again.
setAddRepeating(members, member) == Append(members, member)

\* Set.prototype.add
setAdd(members, member) ==
    IF \E i \in DOMAIN members : members[i] = member
    THEN members
    ELSE Append(members, member)

\* The loop of applyRiskToAccumulator after the first n mapped action ids.
RECURSIVE applyRiskToActions(_, _, _, _)
applyRiskToActions(accumulators, risk, actionIds, n) ==
    IF n = 0 THEN accumulators
    ELSE LET before == applyRiskToActions(accumulators, risk, actionIds, n - 1)
             actionId == actionIds[n]
             at == accumulatorIndex(before, actionId)
         IN  IF at = 0
             THEN Append(before,
                         [ actionId |-> actionId,
                           severity |-> risk.severity,
                           priority |-> risk.mitigationPriority,
                           triggeredByRiskIds |-> << risk.id >> ])
             ELSE [ before EXCEPT ![at] =
                      [ actionId |-> @.actionId,
                        severity |-> chooseHigherSeverity(@.severity, risk.severity),
                        priority |-> chooseHigherPriority(@.priority,
                                                          risk.mitigationPriority),
                        triggeredByRiskIds |-> setAdd(@.triggeredByRiskIds, risk.id) ] ]

applyRiskToAccumulator(accumulators, risk) ==
    LET actionIds == lookupActionIds(risk.id)
    IN  applyRiskToActions(accumulators, risk, actionIds, Len(actionIds))

\* The loop of generateRecommendations over the first n risk items.
RECURSIVE accumulateRisks(_, _)
accumulateRisks(riskItems, n) ==
    IF n = 0 THEN << >>
    ELSE applyRiskToAccumulator(accumulateRisks(riskItems, n - 1), riskItems[n])

\* The map callback: one Recommendation per accumulator (title and rationale
\* are the catalog's constant texts and are left out).
recommendationOf(accumulator) ==
    LET catalog == RECOMMENDATION_CATALOG[accumulator.actionId]
    IN  [ actionId |-> accumulator.actionId,
          severity |-> accumulator.severity,
          priority |-> chooseHigherPriority(catalog.defaultPriority,
                                            accumulator.priority),
          triggeredByRiskIds |-> sortRiskIdsStable(accumulator.triggeredByRiskIds) ]

\* Stable insertion of one recommendation into an already sorted sequence.
RECURSIVE insertRecommendation(_, _)
insertRecommendation(sorted, r) ==
    IF sorted = << >> THEN << r >>
    ELSE IF compareRecommendations(r, sorted[Len(sorted)]) >= 0 THEN Append(sorted, r)
    ELSE Append(insertRecommendation(SubSeq(sorted, 1, Len(sorted) - 1), r),
                sorted[Len(sorted)])

\* .map(...) without the sort: the recommendations in insertion order.
RECURSIVE mapRecommendationsUnsorted(_, _)
mapRecommendationsUnsorted(accumulators, n) ==
    IF n = 0 THEN << >>
    ELSE Append(mapRecommendationsUnsorted(accumulators, n - 1),
                recommendationOf(accumulators[n]))

\* .map(...).sort(compareRecommendations), over the first n accumulators.
RECURSIVE sortRecommendations(_, _)
sortRecommendations(accumulators, n) ==
    IF n = 0 THEN << >>
    ELSE insertRecommendation(sortRecommendations(accumulators, n - 1),
                              recommendationOf(accumulators[n]))

\* The outcome of a call that ends in "TypeError: actionIds is not iterable".
TYPE_ERROR == [ thrown |-> "TypeError" ]

generateRecommendations(in) ==
    IF \E i \in DOMAIN in.riskItems :
          lookupActionIds(in.riskItems[i].id) = NOT_ITERABLE
    THEN TYPE_ERROR
    ELSE LET accumulators == accumulateRisks(in.riskItems, Len(in.riskItems))
         IN  [ rulesetVersion |-> RECOMMENDATION_RULESET_VERSION,
               recommendations |->
                   sortRecommendations(accumulators, Len(accumulators)) ]

(***************************************************************************)
(* Operations                                                              *)
(***************************************************************************)
NoCallYet ==
    scoreOut = << >> /\ riskOut = << >> /\ confOut = << >> /\ recOut = << >>

\* A test (or the upstream collector) overwrites one field of the cloned
\* fixture before the pipeline is called.
CollectSignal(fields) ==
    /\ edits < MaxEdits
    /\ NoCallYet
    /\ \E field \in fields :
          \E value \in SignalValues(field) :
             /\ input[field] # value
             /\ input' = [ input EXCEPT ![field] = value ]
    /\ edits' = edits + 1
    /\ UNCHANGED <<score, scoreOut, riskOut, confOut, recIn, recOut, queue, popup>>

CallComputePrivacyScore ==
    /\ scoreOut = << >>
    /\ scoreOut' = Append(scoreOut, computePrivacyScore(input))
    /\ UNCHANGED <<input, edits, score, riskOut, confOut, recIn, recOut, queue, popup>>

CallDetectRisks ==
    /\ riskOut = << >>
    /\ riskOut' = Append(riskOut, detectRisks([ score |-> score, normalized |-> input ]))
    /\ UNCHANGED <<input, edits, score, scoreOut, confOut, recIn, recOut, queue, popup>>

CallDeriveConfidence ==
    /\ confOut = << >>
    /\ confOut' = Append(confOut, deriveConfidence(input))
    /\ UNCHANGED <<input, edits, score, scoreOut, riskOut, recIn, recOut, queue, popup>>

\* The caller puts one more risk item into the RiskDetectionOutput it is
\* going to hand to generateRecommendations.
AddRiskItem(items) ==
    /\ Len(recIn) < MaxRiskItems
    /\ NoCallYet
    /\ \E item \in items : recIn' = Append(recIn, item)
    /\ UNCHANGED <<input, edits, score, scoreOut, riskOut, confOut, recOut, queue, popup>>

CallGenerateRecommendations ==
    /\ recOut = << >>
    /\ recOut' = Append(recOut, generateRecommendations([ riskItems |-> recIn ]))
    /\ UNCHANGED <<input, edits, score, scoreOut, riskOut, confOut, recIn, queue, popup>>

\* computePrivacyScore, then detectRisks on its score, then
\* generateRecommendations on the detected risks.
RunPipeline ==
    /\ NoCallYet
    /\ scoreOut' = Append(scoreOut, computePrivacyScore(input))
    /\ score' = 10 * scoreOut'[Len(scoreOut')].score
    /\ riskOut' = Append(riskOut, detectRisks([ score |-> score', normalized |-> input ]))
    /\ recIn' = riskOut'[Len(riskOut')].riskItems
    /\ recOut' = Append(recOut, generateRecommendations(riskOut'[Len(riskOut')]))
    /\ UNCHANGED <<input, edits, confOut, queue, popup>>

(***************************************************************************)
(* Specification of the score engine: a cloned fixture, up to MaxEdits     *)
(* overwritten signal fields, then one call of computePrivacyScore.        *)
(***************************************************************************)
ScoreFields == NumericFields \cup { "available" }

InitScore ==
    /\ input \in Fixtures
    /\ edits = 0
    /\ score = 0
    /\ scoreOut = << >>
    /\ riskOut = << >>
    /\ confOut = << >>
    /\ recIn = << >>
    /\ recOut = << >>
    /\ queue = NULL
    /\ popup = NULL

CollectScoreSignal == CollectSignal(ScoreFields)

NextScore == CollectScoreSignal \/ CallComputePrivacyScore

SpecScore == InitScore /\ [][NextScore]_vars

(***************************************************************************)
(* Specification of the band mapping: detectRisks called once on the low   *)
(* risk fixture with any score from just below 0 to just above 100, in     *)
(* steps of one thousandth.                                                *)
(***************************************************************************)
InitBands ==
    /\ input = lowRiskFixture
    /\ edits = 0
    /\ score \in (0 - ScoreMargin) .. (100000 + ScoreMargin)
    /\ scoreOut = << >>
    /\ riskOut = << >>
    /\ confOut = << >>
    /\ recIn = << >>
    /\ recOut = << >>
    /\ queue = NULL
    /\ popup = NULL

NextBands == CallDetectRisks

SpecBands == InitBands /\ [][NextBands]_vars

(***************************************************************************)
(* Specification of the risk rules: a cloned fixture, up to MaxEdits       *)
(* overwritten fields, one of the four boundary scores 39.99, 40, 69.99,   *)
(* 70, then one call of detectRisks.                                       *)
(***************************************************************************)
RiskFields == NumericFields \cup { "available", "unavailableReason" }

ScoreSamples == { 39990, 40000, 69990, 70000 }

InitRisk ==
    /\ input \in Fixtures
    /\ edits = 0
    /\ score \in ScoreSamples
    /\ scoreOut = << >>
    /\ riskOut = << >>
    /\ confOut = << >>
    /\ recIn = << >>
    /\ recOut = << >>
    /\ queue = NULL
    /\ popup = NULL

CollectRiskSignal == CollectSignal(RiskFields)

NextRisk == CollectRiskSignal \/ CallDetectRisks

SpecRisk == InitRisk /\ [][NextRisk]_vars

(***************************************************************************)
(* Specification of the confidence assessor: a cloned fixture with any of  *)
(* the 16 combinations of source flags, up to MaxEdits overwritten fields, *)
(* then one call of deriveConfidence.                                      *)
(***************************************************************************)
WithSourceFlags(in, flags) ==
    [ in EXCEPT !.contentReachable = flags[1],
                !.contentSignalsAvailable = flags[2],
                !.cookieSignalsAvailable = flags[3],
                !.networkSignalsAvailable = flags[4] ]

ConfFields == NumericFields \cup { "available", "unavailableReason" }

InitConf ==
    /\ input \in { WithSourceFlags(fixture, flags) :
                      fixture \in Fixtures,
                      flags \in BOOLEAN \X BOOLEAN \X BOOLEAN \X BOOLEAN }
    /\ edits = 0
    /\ score = 0
    /\ scoreOut = << >>
    /\ riskOut = << >>
    /\ confOut = << >>
    /\ recIn = << >>
    /\ recOut = << >>
    /\ queue = NULL
    /\ popup = NULL

CollectConfSignal == CollectSignal(ConfFields)

NextConf == CollectConfSignal \/ CallDeriveConfidence

SpecConf == InitConf /\ [][NextConf]_vars

(***************************************************************************)
(* Specification of the recommendation generator: a list of up to          *)
(* MaxRiskItems risk items (seven rule ids covering every distinct list of *)
(* actions of the map in both orders, the synthetic                        *)
(* network_signals_unavailable id and an id no rule produces, with         *)
(* severities and priorities not tied to the id, repeats allowed), then    *)
(* one call of generateRecommendations.                                    *)
(***************************************************************************)
RiskIdSamples ==
    { "overall_score_high", "third_party_cookie_volume", "third_party_script_domains",
      "persistent_storage_footprint", "tracking_indicator_density",
      "network_heavy_third_party_requests", "network_short_window_burst",
      "network_signals_unavailable", "constructor" }

RiskItemSamples ==
    { [ id |-> id, severity |-> grade[1], mitigationPriority |-> grade[2] ] :
        id \in RiskIdSamples,
        grade \in { << "high", "p3" >>, << "medium", "p2" >>, << "low", "p1" >> } }

InitRec ==
    /\ input = baseFixture
    /\ edits = 0
    /\ score = 0
    /\ scoreOut = << >>
    /\ riskOut = << >>
    /\ confOut = << >>
    /\ recIn = << >>
    /\ recOut = << >>
    /\ queue = NULL
    /\ popup = NULL

AddSampleRiskItem == AddRiskItem(RiskItemSamples)

NextRec == AddSampleRiskItem \/ CallGenerateRecommendations

SpecRec == InitRec /\ [][NextRec]_vars

(***************************************************************************)
(* Specification of the recommendation generator for the comparison of a   *)
(* list with all its rearrangements: three rule ids whose action lists     *)
(* overlap in both orders, the synthetic network_signals_unavailable id    *)
(* and an id no rule produces, with every severity and priority grade.     *)
(***************************************************************************)
OverlappingRiskIdSamples ==
    { "overall_score_high", "tracking_indicator_density",
      "network_heavy_third_party_requests", "network_signals_unavailable",
      "constructor" }

OverlappingRiskItemSamples == { item \in RiskItemSamples : item.id \in OverlappingRiskIdSamples }

AddOverlappingRiskItem == AddRiskItem(OverlappingRiskItemSamples)

NextRecOrder == AddOverlappingRiskItem \/ CallGenerateRecommendations

SpecRecOrder == InitRec /\ [][NextRecOrder]_vars

(***************************************************************************)
(* Specification of the pipeline: a cloned fixture, up to MaxEdits         *)
(* overwritten fields, then computePrivacyScore -> detectRisks ->          *)
(* generateRecommendations.                                                *)
(***************************************************************************)
PipelineFields == NumericFields \cup { "available" }

InitPipeline ==
    /\ input \in Fixtures
    /\ edits = 0
    /\ score = 0
    /\ scoreOut = << >>
    /\ riskOut = << >>
    /\ confOut = << >>
    /\ recIn = << >>
    /\ recOut = << >>
    /\ queue = NULL
    /\ popup = NULL

CollectPipelineSignal == CollectSignal(PipelineFields)

NextPipeline == CollectPipelineSignal \/ RunPipeline

SpecPipeline == InitPipeline /\ [][NextPipeline]_vars

(***************************************************************************)
(* Specification of the pipeline around the rule thresholds: every signal  *)
(* is just below its rule's threshold, at it, or (for some) 0 or at the    *)
(* factor's hard cap, in every combination, with the network available or  *)
(* not; then the pipeline runs once.  The two                              *)
(* storage fields add up to at most 1,999,999 bytes when both are below    *)
(* 1,000,000 + 1, the three tracking fields to at most 11 hits when none   *)
(* is above 4.                                                             *)
(***************************************************************************)
NearThresholdValues(field) ==
    CASE field = "thirdPartyScriptDomainCount" -> { 0, 9, 10, 20 }
      [] field = "thirdPartyCookieEstimateCount" -> { 24, 25, 40 }
      [] field = "localStorageApproxBytes" -> { 999999, 1000000, 4000000 }
      [] field = "sessionStorageApproxBytes" -> { 0, 1000000 }
      [] field = "trackerDomainHitCount" -> { 4, 30 }
      [] field = "endpointPatternHitCount" -> { 0, 4 }
      [] field = "trackingQueryParamCount" -> { 3, 4 }
      [] field = "thirdPartyRequestCount" -> { 39, 40 }
      [] field = "suspiciousEndpointHitCount" -> { 14, 15 }
      [] field = "knownTrackerDomainHitCount" -> { 7, 8 }
      [] field = "shortWindowBurstCount" -> { 24, 25 }

NearThresholdInputs ==
    { [ baseFixture EXCEPT
          !.thirdPartyScriptDomainCount = scripts,
          !.thirdPartyCookieEstimateCount = cookies,
          !.localStorageApproxBytes = storage[1],
          !.sessionStorageApproxBytes = storage[2],
          !.trackerDomainHitCount = tracking[1],
          !.endpointPatternHitCount = tracking[2],
          !.trackingQueryParamCount = tracking[3],
          !.thirdPartyRequestCount = network[1],
          !.suspiciousEndpointHitCount = network[2],
          !.knownTrackerDomainHitCount = network[3],
          !.shortWindowBurstCount = network[4],
          !.available = available,
          !.networkSignalsAvailable = available ] :
        scripts \in NearThresholdValues("thirdPartyScriptDomainCount"),
        cookies \in NearThresholdValues("thirdPartyCookieEstimateCount"),
        storage \in NearThresholdValues("localStorageApproxBytes")
                      \X NearThresholdValues("sessionStorageApproxBytes"),
        tracking \in NearThresholdValues("trackerDomainHitCount")
                       \X NearThresholdValues("endpointPatternHitCount")
                       \X NearThresholdValues("trackingQueryParamCount"),
        network \in NearThresholdValues("thirdPartyRequestCount")
                      \X NearThresholdValues("suspiciousEndpointHitCount")
                      \X NearThresholdValues("knownTrackerDomainHitCount")
                      \X NearThresholdValues("shortWindowBurstCount"),
        available \in BOOLEAN }

InitNearThresholds ==
    /\ input \in NearThresholdInputs
    /\ edits = 0
    /\ score = 0
    /\ scoreOut = << >>
    /\ riskOut = << >>
    /\ confOut = << >>
    /\ recIn = << >>
    /\ recOut = << >>
    /\ queue = NULL
    /\ popup = NULL

NextNearThresholds == RunPipeline

SpecNearThresholds == InitNearThresholds /\ [][NextNearThresholds]_vars

(***************************************************************************)
(* Specification of the score engine over the range of its inputs: counts  *)
(* from zero to the factor's hardCap and, for the two storage sizes, up to *)
(* Number.MAX_VALUE; then one call of computePrivacyScore.                 *)
(***************************************************************************)
ScoreRangeInputs ==
    { [ baseFixture EXCEPT
          !.thirdPartyScriptDomainCount = scripts,
          !.thirdPartyCookieEstimateCount = cookies,
          !.localStorageApproxBytes = storage[1],
          !.sessionStorageApproxBytes = storage[2],
          !.trackerDomainHitCount = tracking,
          !.thirdPartyRequestCount = network,
          !.available = available,
          !.networkSignalsAvailable = available ] :
        scripts \in { 0, 20 },
        cookies \in { 0, 40 },
        storage \in { 0, 580000, MAX_VALUE } \X { 0, 1000, MAX_VALUE },
        tracking \in { 0, 29 },
        network \in { 0, 79 },
        available \in BOOLEAN }

InitScoreRange ==
    /\ input \in ScoreRangeInputs
    /\ edits = 0
    /\ score = 0
    /\ scoreOut = << >>
    /\ riskOut = << >>
    /\ confOut = << >>
    /\ recIn = << >>
    /\ recOut = << >>
    /\ queue = NULL
    /\ popup = NULL

NextScoreRange == CallComputePrivacyScore

SpecScoreRange == InitScoreRange /\ [][NextScoreRange]_vars

(***************************************************************************)
(* Action queue of the background worker                                   *)
(* (apps/extension/src/background/improvePrivacy/actionQueue.ts).          *)
(* A handler is called with the context; it throws, or it returns a result *)
(* or a promise, which the queue awaits.  An error is a thrown value or    *)
(* the reason of a rejection: an Error with its message, or any other      *)
(* value.  The registry is held as the set of ids that have a handler.     *)
(* queue.pc is where the async function stands: "idle" before the call,    *)
(* "loop" at the head of the for loop, "awaiting" at the await, and        *)
(* "resolved" or "rejected" once its promise has settled.  queue.running   *)
(* holds the ids whose handler has been called and has not settled, and    *)
(* queue.handled what was seen of each id, in order.                       *)
(***************************************************************************)
RecommendationActionId == DOMAIN RECOMMENDATION_CATALOG

Range(seq) == { seq[i] : i \in DOMAIN seq }

\* The for loop over the first n selected ids; `seen` holds the ids of `ordered`.
RECURSIVE dedupePrefix(_, _)
dedupePrefix(selectedActionIds, n) ==
    IF n = 0 THEN << >>
    ELSE LET ordered == dedupePrefix(selectedActionIds, n - 1)
             actionId == selectedActionIds[n]
         IN  IF actionId \in Range(ordered) THEN ordered ELSE Append(ordered, actionId)

dedupeActionIdsInStableOrder(selectedActionIds) ==
    dedupePrefix(selectedActionIds, Len(selectedActionIds))

asFailedResult(actionId, message) ==
    [ actionId |-> actionId, status |-> "failed", message |-> message ]

\* error instanceof Error ? error.message : "Action failed unexpectedly."
queueFailureMessage(error) ==
    IF error.isError THEN error.message ELSE "Action failed unexpectedly."

\* Reading outcome.status of undefined throws this inside the try block.
TypeErrorOfUndefined ==
    [ isError |-> TRUE, message |-> "Cannot read properties of undefined" ]

noteHandled(q, actionId, did) ==
    [ q EXCEPT !.handled = Append(@, [ actionId |-> actionId, did |-> did ]) ]

\* No try block around the handler: its error becomes the rejection of the
\* promise of the queue.
handlerErrorUncaught(q, actionId, error) ==
    [ q EXCEPT !.pc = "rejected", !.running = @ \ { actionId } ]

\* catch (error) { results.push(asFailedResult(...)) }, then the next id.
catchHandlerError(q, actionId, error) ==
    [ q EXCEPT !.results = Append(@, asFailedResult(actionId, queueFailureMessage(error))),
               !.position = @ + 1,
               !.pc = "loop",
               !.running = @ \ { actionId } ]

\* results.push({ actionId, status: outcome.status, message: outcome.message })
pushOutcome(q, actionId, outcome) ==
    IF outcome.defined
    THEN [ q EXCEPT !.results = Append(@, [ actionId |-> actionId,
                                            status |-> outcome.status,
                                            message |-> outcome.message ]),
                    !.position = @ + 1,
                    !.pc = "loop",
                    !.running = @ \ { actionId } ]
    ELSE catchHandlerError(q, actionId, TypeErrorOfUndefined)

(***************************************************************************)
(* Selection state of the popup (apps/extension/src/popup/index.ts).       *)
(* popup.analysis is the list of action ids of analysis.recommendations,   *)
(* one checkbox each; popup.uiState is uiState; popup.inFlight holds the   *)
(* calls of executeSelectedActions that have not settled, each with the    *)
(* ids it was given; popup.settled is the latest settlement.  A rendered   *)
(* checkbox is checked when its id is among the selected ids.              *)
(***************************************************************************)
DEFAULT_POPUP_UI_STATE ==
    [ selectedActionIds |-> << >>, isProcessing |-> FALSE, actionResults |-> << >> ]

\* selectedActionIds.includes(recommendation.actionId)
renderedChecked(p, i) == p.analysis[i] \in Range(p.uiState.selectedActionIds)

\* checkboxes.filter((item) => item.checked).map((item) => item.value), after
\* the user has toggled checkbox i.
checkedAfterChange(p, i) ==
    LET checked(j) == IF j = i THEN ~renderedChecked(p, j) ELSE renderedChecked(p, j)
        boxes == SelectSeq([ j \in DOMAIN p.analysis |-> j ], LAMBDA j : checked(j))
    IN  [ k \in DOMAIN boxes |-> p.analysis[boxes[k]] ]

\* The guard without its isProcessing half.
clickIsIgnoredWhenEmpty(uiState) == Len(uiState.selectedActionIds) = 0

\* if (uiState.selectedActionIds.length === 0 || uiState.isProcessing) return;
clickIsIgnored(uiState) ==
    Len(uiState.selectedActionIds) = 0 \/ uiState.isProcessing

\* error instanceof Error ? error.message : "Action execution failed."
popupFailureMessage(error) ==
    IF error.isError THEN error.message ELSE "Action execution failed."

withoutCall(calls, k) == [ i \in 1..(Len(calls) - 1) |-> IF i < k THEN calls[i] ELSE calls[i + 1] ]

(***************************************************************************)
(* Operations of the action queue: the call, and then the steps of the     *)
(* async function from one await to the next.                              *)
(***************************************************************************)
pipelineVars == <<input, edits, score, scoreOut, riskOut, confOut, recIn, recOut>>

ErrorSamples ==
    { [ isError |-> TRUE, message |-> "handler error" ],
      [ isError |-> FALSE, message |-> NULL ] }

\* What the awaited value of a handler fulfils with: an ActionHandlerResult,
\* or undefined.
OutcomeSamples ==
    { [ defined |-> TRUE, status |-> status, message |-> "handler message" ] :
        status \in { "success", "failed", "skipped" } }
      \cup { [ defined |-> FALSE, status |-> NULL, message |-> NULL ] }

CallExecuteImprovePrivacyActionQueue ==
    /\ queue.pc = "idle"
    /\ queue' = [ queue EXCEPT
                    !.orderedActionIds = dedupeActionIdsInStableOrder(queue.selectedActionIds),
                    !.results = << >>,
                    !.position = 1,
                    !.pc = "loop" ]
    /\ UNCHANGED <<pipelineVars, popup>>

AtActionId == queue.pc = "loop" /\ queue.position <= Len(queue.orderedActionIds)

currentActionId == queue.orderedActionIds[queue.position]

\* if (!handler) { results.push({ ..., status: "skipped", ... }); continue; }
SkipUnregisteredAction ==
    /\ AtActionId
    /\ currentActionId \notin queue.registry
    /\ queue' = noteHandled(
                    [ queue EXCEPT
                        !.results = Append(@, [ actionId |-> currentActionId,
                                                status |-> "skipped",
                                                message |-> "No action handler is registered for this recommendation." ]),
                        !.position = @ + 1 ],
                    currentActionId, "unregistered")
    /\ UNCHANGED <<pipelineVars, popup>>

\* handler(context): it throws, or it returns what the queue then awaits.
CallHandler ==
    /\ AtActionId
    /\ currentActionId \in queue.registry
    /\ \/ \E error \in ErrorSamples :
            queue' = noteHandled(catchHandlerError(queue, currentActionId, error),
                                 currentActionId, "threw")
       \/ queue' = [ queue EXCEPT !.pc = "awaiting", !.running = @ \cup { currentActionId } ]
    /\ UNCHANGED <<pipelineVars, popup>>

\* The awaited value settles and the async function goes on.
HandlerSettles ==
    /\ queue.pc = "awaiting"
    /\ \/ \E outcome \in OutcomeSamples :
            queue' = noteHandled(pushOutcome(queue, currentActionId, outcome),
                                 currentActionId, "fulfilled")
       \/ \E error \in ErrorSamples :
            queue' = noteHandled(catchHandlerError(queue, currentActionId, error),
                                 currentActionId, "rejected")
    /\ UNCHANGED <<pipelineVars, popup>>

\* return results;
ReturnResults ==
    /\ queue.pc = "loop"
    /\ queue.position > Len(queue.orderedActionIds)
    /\ queue' = [ queue EXCEPT !.pc = "resolved" ]
    /\ UNCHANGED <<pipelineVars, popup>>

(***************************************************************************)
(* Specification of the action queue: up to MaxSelected selected ids out   *)
(* of three, repeats allowed, any of the three with a handler.  The event  *)
(* loop runs every continuation that is ready, and a handler is taken to   *)
(* settle: weak fairness of every step.                                    *)
(***************************************************************************)
ActionIdSamples ==
    { "block_known_trackers", "clear_site_storage_data", "harden_network_privacy" }

SeqsUpTo(S, n) == UNION { [ 1..k -> S ] : k \in 0..n }

InitQueue ==
    /\ input = baseFixture
    /\ edits = 0
    /\ score = 0
    /\ scoreOut = << >>
    /\ riskOut = << >>
    /\ confOut = << >>
    /\ recIn = << >>
    /\ recOut = << >>
    /\ queue \in { [ pc |-> "idle",
                     selectedActionIds |-> selectedActionIds,
                     registry |-> registry,
                     orderedActionIds |-> << >>,
                     position |-> 0,
                     results |-> << >>,
                     running |-> {},
                     handled |-> << >> ] :
                     selectedActionIds \in SeqsUpTo(ActionIdSamples, MaxSelected),
                     registry \in SUBSET ActionIdSamples }
    /\ popup = NULL

NextQueue ==
    \/ CallExecuteImprovePrivacyActionQueue
    \/ SkipUnregisteredAction
    \/ CallHandler
    \/ HandlerSettles
    \/ ReturnResults

SpecQueue == InitQueue /\ [][NextQueue]_vars /\ WF_vars(NextQueue)

(***************************************************************************)
(* Operations of the popup: a checkbox is toggled, the Improve button is   *)
(* clicked, a call in flight resolves or rejects.  The continuation after  *)
(* the await runs before any other event is handled, so a settlement and   *)
(* what the click handler does with it are one step.                       *)
(***************************************************************************)
AnalysisSamples ==
    { << >>,
      << "block_known_trackers", "harden_network_privacy" >>,
      << "harden_network_privacy", "clear_site_storage_data" >> }

\* The results a call hands back for the ids it was given: one per distinct id.
ResultsSamples(selectedActionIds) ==
    LET ordered == dedupeActionIdsInStableOrder(selectedActionIds)
    IN  { [ i \in DOMAIN ordered |->
              [ actionId |-> ordered[i], status |-> statuses[i], message |-> "handler message" ] ] :
            statuses \in [ DOMAIN ordered -> { "success", "skipped" } ] }

ChangeCheckbox ==
    /\ \E i \in DOMAIN popup.analysis :
          popup' = [ popup EXCEPT !.uiState.selectedActionIds = checkedAfterChange(popup, i) ]
    /\ UNCHANGED <<pipelineVars, queue>>

ClickImprove ==
    /\ IF clickIsIgnored(popup.uiState)
       THEN UNCHANGED popup
       ELSE /\ Len(popup.inFlight) < MaxInFlight
            /\ popup' = [ popup EXCEPT
                            !.uiState.isProcessing = TRUE,
                            !.inFlight = Append(@, [ selectedActionIds |->
                                                       popup.uiState.selectedActionIds ]) ]
    /\ UNCHANGED <<pipelineVars, queue>>

CallResolves ==
    /\ \E k \in DOMAIN popup.inFlight :
          \E results \in ResultsSamples(popup.inFlight[k].selectedActionIds) :
              \E refreshedAnalysis \in AnalysisSamples :
                  popup' = [ analysis |-> refreshedAnalysis,
                             uiState |-> [ popup.uiState EXCEPT
                                             !.isProcessing = FALSE,
                                             !.selectedActionIds = << >>,
                                             !.actionResults = results ],
                             inFlight |-> withoutCall(popup.inFlight, k),
                             settled |-> [ outcome |-> "resolved",
                                           selectedActionIds |->
                                               popup.inFlight[k].selectedActionIds,
                                           results |-> results ] ]
    /\ UNCHANGED <<pipelineVars, queue>>

CallRejects ==
    /\ \E k \in DOMAIN popup.inFlight :
          \E error \in ErrorSamples :
              LET failedSelectedActionIds == popup.uiState.selectedActionIds
              IN  popup' = [ popup EXCEPT
                               !.uiState.isProcessing = FALSE,
                               !.uiState.actionResults =
                                   [ i \in DOMAIN failedSelectedActionIds |->
                                       [ actionId |-> failedSelectedActionIds[i],
                                         status |-> "failed",
                                         message |-> popupFailureMessage(error) ] ],
                               !.inFlight = withoutCall(popup.inFlight, k),
                               !.settled = [ outcome |-> "rejected",
                                             selectedActionIds |->
                                                 popup.inFlight[k].selectedActionIds,
                                             results |-> << >> ] ]
    /\ UNCHANGED <<pipelineVars, queue>>

(***************************************************************************)
(* Specification of the popup: mounted on one of three analyses with the   *)
(* default state or with one id selected, then any interleaving of         *)
(* checkbox changes, clicks and settlements.                               *)
(***************************************************************************)
InitPopup ==
    /\ input = baseFixture
    /\ edits = 0
    /\ score = 0
    /\ scoreOut = << >>
    /\ riskOut = << >>
    /\ confOut = << >>
    /\ recIn = << >>
    /\ recOut = << >>
    /\ queue = NULL
    /\ popup \in { [ analysis |-> initialAnalysis,
                     uiState |-> [ DEFAULT_POPUP_UI_STATE EXCEPT
                                     !.selectedActionIds = selectedActionIds ],
                     inFlight |-> << >>,
                     settled |-> [ outcome |-> "none",
                                   selectedActionIds |-> << >>,
                                   results |-> << >> ] ] :
                     initialAnalysis \in AnalysisSamples,
                     selectedActionIds \in { << >>, << "harden_network_privacy" >> } }

NextPopup == ChangeCheckbox \/ ClickImprove \/ CallResolves \/ CallRejects

SpecPopup == InitPopup /\ [][NextPopup]_vars

(***************************************************************************)
(* Properties of the score engine                                          *)
(***************************************************************************)
ScoreCalled == scoreOut # << >>

LastScore == scoreOut[Len(scoreOut)]

AllSignalsZero == \A field \in NumericFields : input[field] = 0

AllFactorsAtHardCap ==
    /\ input.available
    /\ \A i \in DOMAIN LastScore.contributions :
          LastScore.contributions[i].rawValue
              >= Hundredths(LastScore.contributions[i].hardCap)

\* C1: the score always lies in [0,100]; the all-zero input has totalPenalty 0
\* and score 100; an input whose five factors all have a raw value at or above
\* the hard cap (network available) has totalPenalty 100 and score 0.
C1_ScoreBounds ==
    ScoreCalled =>
        /\ 0 <= LastScore.score /\ LastScore.score <= Hundredths(100)
        /\ AllSignalsZero =>
              LastScore.totalPenalty = 0 /\ LastScore.score = Hundredths(100)
        /\ AllFactorsAtHardCap =>
              LastScore.totalPenalty = Hundredths(100) /\ LastScore.score = 0

C1_Witness ==
    /\ ScoreCalled
    /\ AllFactorsAtHardCap
    /\ input.thirdPartyScriptDomainCount > 20
    /\ LastScore.score = 0

\* C2: totalPenalty is the sum of the five already-rounded penalties (itself a
\* 2-decimal value, so its rounding changes nothing), never exceeds 100, and
\* score = clamp(100 - totalPenalty, 0, 100) = 100 - totalPenalty.
C2_TotalIsSumOfRoundedPenalties ==
    ScoreCalled =>
        LET c == LastScore.contributions
            total == c[1].penalty + c[2].penalty + c[3].penalty
                     + c[4].penalty + c[5].penalty
            rest == Hundredths(100) - LastScore.totalPenalty
        IN  /\ Len(c) = 5
            /\ LastScore.totalPenalty = total
            /\ LastScore.totalPenalty <= Hundredths(100)
            /\ LastScore.score
                 = (IF rest < 0 THEN 0
                    ELSE IF rest > Hundredths(100) THEN Hundredths(100) ELSE rest)
            /\ LastScore.score + LastScore.totalPenalty = Hundredths(100)

\* A result for which rounding the unrounded sum once would give another total.
C2_Witness ==
    /\ ScoreCalled
    /\ LastScore.totalPenalty # totalPenaltyRoundedOnce(LastScore.contributions)
    /\ LastScore.totalPenalty > 0

WithoutNetworkCounts(in) ==
    [ in EXCEPT !.thirdPartyRequestCount = 0,
                !.suspiciousEndpointHitCount = 0,
                !.knownTrackerDomainHitCount = 0,
                !.shortWindowBurstCount = 0 ]

\* C3: with networkSignals.available false the network factor has rawValue 0
\* and penalty 0, and the result equals the result for the same input with the
\* four network counts set to 0: inputs that differ only in those counts have
\* one and the same result.
C3_UnavailableNetworkIgnored ==
    (ScoreCalled /\ ~input.available) =>
        /\ LastScore.contributions[5].factorId = "network_suspiciousness"
        /\ LastScore.contributions[5].rawValue = 0
        /\ LastScore.contributions[5].penalty = 0
        /\ LastScore = computePrivacyScore(WithoutNetworkCounts(input))

C3_Witness ==
    /\ ScoreCalled
    /\ ~input.available
    /\ \E field \in NetworkCountFields : input[field] > 0

\* C4: replacing one negative numeric field by 0 leaves contributions,
\* totalPenalty and score unchanged, also when the field is one addend of a
\* summed factor whose other addends are positive.
C4_NegativeFieldIsZero ==
    ScoreCalled =>
        \A field \in NumericFields :
            input[field] < 0 =>
                LET zeroed == computePrivacyScore([ input EXCEPT ![field] = 0 ])
                IN  /\ zeroed.contributions = LastScore.contributions
                    /\ zeroed.totalPenalty = LastScore.totalPenalty
                    /\ zeroed.score = LastScore.score

\* penalty (hundredths) is weight * capped / hardCap rounded half-up to two
\* decimals, for capped in the signal's own unit: with
\* weight * capped = q * hardCap + r, the part of the penalty above q is the
\* f with f - 1/2 <= 100 * r / hardCap < f + 1/2.
IsHalfUpPenalty(penalty, weight, capped, hardCap) ==
    LET q == (weight * capped) \div hardCap
        r == (weight * capped) % hardCap
        f == penalty - 100 * q
    IN  /\ 2 * f * hardCap <= 200 * r + hardCap
        /\ 200 * r + hardCap < 2 * f * hardCap + 2 * hardCap

\* The contributions are the five factors in canonical order with
\* cappedValue = min(rawValue, hardCap), 0 <= penalty <= weight and
\* penalty = weight whenever rawValue >= hardCap.
ContributionsWellFormed ==
    /\ Len(LastScore.contributions) = 5
    /\ [ i \in 1 .. 5 |-> LastScore.contributions[i].factorId ]
         = << "third_party_scripts", "third_party_cookies", "storage_usage",
              "tracking_indicators", "network_suspiciousness" >>
    /\ \A i \in 1 .. 5 :
          LET c == LastScore.contributions[i]
          IN  /\ c.cappedValue = Min(c.rawValue, Hundredths(c.hardCap))
              /\ 0 <= c.penalty /\ c.penalty <= Hundredths(c.weight)
              /\ c.rawValue >= Hundredths(c.hardCap) => c.penalty = Hundredths(c.weight)

\* C18: for every factor and every input the emitted contribution has
\* cappedValue = min(rawValue, hardCap) and penalty = weight * cappedValue /
\* hardCap rounded half-up to 2 decimals, hence 0 <= penalty <= weight and
\* penalty = weight whenever rawValue >= hardCap; contributions always holds
\* exactly five entries in the order scripts, cookies, storage, tracking,
\* network.
C18_ContributionsCappedAndRoundedHalfUp ==
    ScoreCalled =>
        /\ ContributionsWellFormed
        /\ \A i \in 1 .. 5 :
              LET c == LastScore.contributions[i]
              IN  IsHalfUpPenalty(c.penalty, c.weight, c.cappedValue \div 100, c.hardCap)

\* Canonical position of a factor: scripts, cookies, storage, tracking, network.
CanonicalPosition(factorId) ==
    CASE factorId = "third_party_scripts" -> 1
      [] factorId = "third_party_cookies" -> 2
      [] factorId = "storage_usage" -> 3
      [] factorId = "tracking_indicators" -> 4
      [] factorId = "network_suspiciousness" -> 5

\* Entry a stands before entry b: larger penalty, or equal penalty and earlier
\* canonical position.
StandsBefore(a, b) ==
    \/ a.penalty > b.penalty
    \/ a.penalty = b.penalty
       /\ CanonicalPosition(a.factorId) < CanonicalPosition(b.factorId)

\* C19: strongestNegativeReasons holds at most 3 entries, only factors whose
\* penalty is > 0, ordered by descending penalty with equal penalties in
\* canonical factor order; it is the top of that ordering (every
\* positive-penalty factor left out has a penalty no larger than every entry
\* kept), and it is empty iff totalPenalty is 0.
C19_StrongestReasonsAreTopThree ==
    ScoreCalled =>
        LET reasons == LastScore.strongestNegativeReasons
            cs == LastScore.contributions
            positive == { i \in DOMAIN cs : cs[i].penalty > 0 }
            kept == { i \in DOMAIN cs :
                        \E k \in DOMAIN reasons : reasons[k].factorId = cs[i].factorId }
        IN  /\ Len(reasons) <= 3
            /\ Len(reasons) = Min(3, Cardinality(positive))
            /\ Cardinality(kept) = Len(reasons)
            /\ kept \subseteq positive
            /\ \A k \in DOMAIN reasons :
                  \E i \in kept : /\ cs[i].factorId = reasons[k].factorId
                                  /\ cs[i].penalty = reasons[k].penalty
            /\ \A k \in 1 .. (Len(reasons) - 1) : StandsBefore(reasons[k], reasons[k + 1])
            /\ \A i \in positive \ kept :
                  \A k \in DOMAIN reasons :
                      /\ cs[i].penalty <= reasons[k].penalty
                      /\ StandsBefore(reasons[k], cs[i])
            /\ (reasons = << >>) <=> (LastScore.totalPenalty = 0)

\* Five positive penalties 20, 20, 15, 25, 20: tracking first, then scripts and
\* cookies by canonical order, network (also 20) and storage left out.
C19_Witness ==
    /\ ScoreCalled
    /\ input = highRiskFixture
    /\ [ k \in DOMAIN LastScore.strongestNegativeReasons |->
           LastScore.strongestNegativeReasons[k].factorId ]
         = << "tracking_indicators", "third_party_scripts", "third_party_cookies" >>
    /\ LastScore.contributions[5].penalty = Hundredths(20)

\* The values a count is raised to: below, at and above the factor's hardCap,
\* and the greatest finite number.
RaisedValues(field) ==
    CASE field = "thirdPartyScriptDomainCount" -> { 1, 20, 21 }
      [] field = "thirdPartyCookieEstimateCount" -> { 1, 40, 41 }
      [] field \in StorageFields -> { 1000, 580000, 4000000, 4000001, MAX_VALUE }
      [] field \in TrackingFields -> { 1, 30, 31 }
      [] field \in NetworkCountFields -> { 1, 80, 81 }

\* The position in SCORE_FACTOR_DEFINITIONS of the factor a count goes into.
FactorOfField(field) ==
    CASE field = "thirdPartyScriptDomainCount" -> 1
      [] field = "thirdPartyCookieEstimateCount" -> 2
      [] field \in StorageFields -> 3
      [] field \in TrackingFields -> 4
      [] field \in NetworkCountFields -> 5

FiniteNonNegativeCounts ==
    \A field \in NumericFields : input[field] >= 0 /\ isFinite(input[field])

\* C27: computePrivacyScore is monotone: from any input with non-negative
\* counts, raising one count (a network count only while network is
\* available) with the others fixed never raises score and never lowers a
\* contribution's penalty, and once the factor's raw value has reached its
\* hardCap a further increase changes neither its penalty nor score.
C27_RaisingACountNeverHelps ==
    (ScoreCalled /\ FiniteNonNegativeCounts) =>
        \A field \in NumericFields :
            \A raised \in RaisedValues(field) :
                (/\ raised > input[field]
                 /\ field \in NetworkCountFields => input.available) =>
                    LET after == computePrivacyScore([ input EXCEPT ![field] = raised ])
                        k == FactorOfField(field)
                    IN  /\ after.score <= LastScore.score
                        /\ \A i \in DOMAIN LastScore.contributions :
                              after.contributions[i].penalty
                                  >= LastScore.contributions[i].penalty
                        /\ LastScore.contributions[k].rawValue
                               >= Hundredths(SCORE_FACTOR_DEFINITIONS[k].hardCap) =>
                                  /\ after.score = LastScore.score
                                  /\ after.contributions[k].penalty
                                         = LastScore.contributions[k].penalty

(***************************************************************************)
(* Properties of the risk detector                                         *)
(***************************************************************************)
RiskCalled == riskOut # << >>

LastRisk == riskOut[Len(riskOut)]

RiskIds(out) == { out.riskItems[i].id : i \in DOMAIN out.riskItems }

NetworkRuleIds ==
    { "network_heavy_third_party_requests", "network_suspicious_endpoint_repetition",
      "network_tracker_domain_concentration", "network_short_window_burst" }

\* C5: replacing one negative numeric field of the normalized input by 0 leaves
\* the set of fired rule ids unchanged, also for the summed metrics of
\* persistent_storage_footprint and tracking_indicator_density.
C5_NegativeFieldIsZeroForRisks ==
    RiskCalled =>
        \A field \in NumericFields :
            input[field] < 0 =>
                RiskIds(detectRisks([ score |-> score,
                                      normalized |-> [ input EXCEPT ![field] = 0 ] ]))
                    = RiskIds(LastRisk)

\* C6: for a score on the 2-decimal grid, overallRisk is low when the score
\* clamped into [0,100] is >= 70, medium when it is in [40, 69.99], high when it
\* is <= 39.99, and mappingFallbackUsed is false.
C6_BandOfGridScore ==
    (RiskCalled /\ score % 10 = 0) =>
        LET clamped == IF score < 0 THEN 0 ELSE IF score > 100000 THEN 100000 ELSE score
        IN  /\ LastRisk.mappingFallbackUsed = FALSE
            /\ clamped >= 70000 => LastRisk.overallRisk = "low"
            /\ (clamped >= 40000 /\ clamped <= 69990) => LastRisk.overallRisk = "medium"
            /\ clamped <= 39990 => LastRisk.overallRisk = "high"
            /\ clamped >= 70000 \/ (clamped >= 40000 /\ clamped <= 69990) \/ clamped <= 39990

C6_Witness ==
    /\ RiskCalled
    /\ score = 0 - 10
    /\ LastRisk.overallRisk = "high"

\* C7: every score in [0,100], at any granularity, lies in exactly one band of
\* OVERALL_SCORE_BANDS, and detectRisks never returns mappingFallbackUsed = true.
C7_BandsCoverEveryScore ==
    RiskCalled =>
        /\ (score >= 0 /\ score <= 100000) =>
              Cardinality({ i \in DOMAIN OVERALL_SCORE_BANDS :
                              /\ score >= OVERALL_SCORE_BANDS[i].minInclusive
                              /\ score <= OVERALL_SCORE_BANDS[i].maxInclusive }) = 1
        /\ LastRisk.mappingFallbackUsed = FALSE

\* C8: each of the five non-network rules is in riskItems iff its own
\* comparison holds, each of the four network rules iff the network is
\* available and its count meets its threshold; no rule depends on another.
C8_RuleFiresIffComparisonHolds ==
    RiskCalled =>
        LET ids == RiskIds(LastRisk)
        IN  /\ ("overall_score_high" \in ids) <=> (score < 40000)
            /\ ("third_party_cookie_volume" \in ids)
                 <=> (input.thirdPartyCookieEstimateCount >= 25)
            /\ ("third_party_script_domains" \in ids)
                 <=> (input.thirdPartyScriptDomainCount >= 10)
            /\ ("persistent_storage_footprint" \in ids)
                 <=> (input.localStorageApproxBytes + input.sessionStorageApproxBytes
                        >= 2000000)
            /\ ("tracking_indicator_density" \in ids)
                 <=> (input.trackerDomainHitCount + input.endpointPatternHitCount
                        + input.trackingQueryParamCount >= 12)
            /\ ("network_heavy_third_party_requests" \in ids)
                 <=> (input.available /\ input.thirdPartyRequestCount >= 40)
            /\ ("network_suspicious_endpoint_repetition" \in ids)
                 <=> (input.available /\ input.suspiciousEndpointHitCount >= 15)
            /\ ("network_tracker_domain_concentration" \in ids)
                 <=> (input.available /\ input.knownTrackerDomainHitCount >= 8)
            /\ ("network_short_window_burst" \in ids)
                 <=> (input.available /\ input.shortWindowBurstCount >= 25)

\* A rule fires exactly at its threshold while its neighbours do not fire.
C8_Witness ==
    /\ RiskCalled
    /\ input.thirdPartyCookieEstimateCount = 25
    /\ score = 40000
    /\ input.thirdPartyScriptDomainCount = 9
    /\ "third_party_cookie_volume" \in RiskIds(LastRisk)
    /\ "overall_score_high" \notin RiskIds(LastRisk)
    /\ "third_party_script_domains" \notin RiskIds(LastRisk)

\* C9: with the network unavailable no network rule is emitted, exactly one
\* network_signals_unavailable item (low, p3) is, networkFallbackUsed is true and
\* networkUnavailableReason is the input's unavailableReason; with the network
\* available there is no such item, networkFallbackUsed is false and the reason
\* is null.
C9_NetworkGating ==
    RiskCalled =>
        LET items == LastRisk.riskItems
            synthetic == { i \in DOMAIN items : items[i].id = "network_signals_unavailable" }
        IN  IF ~input.available
            THEN /\ RiskIds(LastRisk) \cap NetworkRuleIds = {}
                 /\ Cardinality(synthetic) = 1
                 /\ \A i \in synthetic :
                       items[i].severity = "low" /\ items[i].mitigationPriority = "p3"
                 /\ LastRisk.networkFallbackUsed = TRUE
                 /\ LastRisk.networkUnavailableReason = input.unavailableReason
            ELSE /\ synthetic = {}
                 /\ LastRisk.networkFallbackUsed = FALSE
                 /\ LastRisk.networkUnavailableReason = NULL

C9_Witness ==
    /\ RiskCalled
    /\ ~input.available
    /\ input.thirdPartyRequestCount >= 40
    /\ input.unavailableReason = "NETWORK_PERMISSION_BLOCKED"
    /\ LastRisk.networkUnavailableReason = "NETWORK_PERMISSION_BLOCKED"

FixedRuleOrder ==
    << "overall_score_high", "third_party_cookie_volume", "third_party_script_domains",
       "persistent_storage_footprint", "tracking_indicator_density",
       "network_heavy_third_party_requests", "network_suspicious_endpoint_repetition",
       "network_tracker_domain_concentration", "network_short_window_burst" >>

\* Position of an id in the fixed rule order, 0 for an id that is no rule's.
RulePosition(id) ==
    LET at == { k \in DOMAIN FixedRuleOrder : FixedRuleOrder[k] = id }
    IN  IF at = {} THEN 0 ELSE CHOOSE k \in at : TRUE

\* C20: riskItems lists the fired rules in the fixed rule order, each id at
\* most once, and the synthetic network_signals_unavailable item, when
\* present, is the last element.
C20_RiskItemsInRuleOrder ==
    RiskCalled =>
        LET items == LastRisk.riskItems
        IN  /\ \A i \in DOMAIN items :
                  \/ RulePosition(items[i].id) > 0
                  \/ items[i].id = "network_signals_unavailable" /\ i = Len(items)
            /\ \A i, j \in DOMAIN items :
                  (i < j /\ RulePosition(items[j].id) > 0)
                      => RulePosition(items[i].id) < RulePosition(items[j].id)
            /\ \A i, j \in DOMAIN items : items[i].id = items[j].id => i = j

\* Several rules fire with the network unavailable: the rules in order, then
\* the synthetic item.
C20_Witness ==
    /\ RiskCalled
    /\ ~input.available
    /\ Len(LastRisk.riskItems) >= 4
    /\ LastRisk.riskItems[1].id = "overall_score_high"
    /\ LastRisk.riskItems[2].id = "third_party_cookie_volume"
    /\ LastRisk.riskItems[Len(LastRisk.riskItems)].id = "network_signals_unavailable"

\* C25: for every finite score on the 2-decimal grid, overallRisk is high if
\* and only if riskItems contains overall_score_high, although the band lookup
\* uses the clamped score and the rule the unclamped one.
C25_HighBandIffOverallRule ==
    (RiskCalled /\ score % 10 = 0) =>
        ((LastRisk.overallRisk = "high") <=> ("overall_score_high" \in RiskIds(LastRisk)))

\* A grid score below 0: the band is found for the clamped score 0, the rule
\* compares the score itself.
C25_Witness ==
    /\ RiskCalled
    /\ score = 0 - 20
    /\ LastRisk.overallRisk = "high"
    /\ LastRisk.mappingFallbackUsed = FALSE
    /\ \E i \in DOMAIN LastRisk.riskItems :
          /\ LastRisk.riskItems[i].id = "overall_score_high"
          /\ LastRisk.riskItems[i].actualValue = 0 - 20

(***************************************************************************)
(* Properties of the confidence assessor                                   *)
(***************************************************************************)
ConfCalled == confOut # << >>

LastConf == confOut[Len(confOut)]

Unmet(flag) == IF flag THEN 0 ELSE 1

\* C10: score = 100 - 20*[not contentReachable] - 35*[not contentSignalsAvailable]
\* - 20*[not cookieSignalsAvailable] - 25*[not networkSignalsAvailable], 0 when
\* all four flags are false; level is high iff score >= 80, medium iff
\* 50 <= score < 80, low otherwise.
C10_ConfidenceScoreAndLevel ==
    ConfCalled =>
        LET expected == 100 - 20 * Unmet(input.contentReachable)
                            - 35 * Unmet(input.contentSignalsAvailable)
                            - 20 * Unmet(input.cookieSignalsAvailable)
                            - 25 * Unmet(input.networkSignalsAvailable)
        IN  /\ LastConf.score = expected
            /\ expected >= 0 /\ expected <= 100
            /\ (\A flag \in SourceFlagFields : ~input[flag]) => LastConf.score = 0
            /\ (LastConf.level = "high") <=> (LastConf.score >= 80)
            /\ (LastConf.level = "medium")
                 <=> (LastConf.score >= 50 /\ LastConf.score < 80)
            /\ (LastConf.level = "low") <=> (LastConf.score < 50)

\* Content-reachable, content-signals and network false: 20 / low.
C10_Witness ==
    /\ ConfCalled
    /\ ~input.contentReachable
    /\ ~input.contentSignalsAvailable
    /\ input.cookieSignalsAvailable
    /\ ~input.networkSignalsAvailable
    /\ LastConf.score = 20
    /\ LastConf.level = "low"

ReasonCodes(out) == [ i \in DOMAIN out.reasons |-> out.reasons[i].code ]

SourceFlagsOf(in) ==
    << in.contentReachable, in.contentSignalsAvailable,
       in.cookieSignalsAvailable, in.networkSignalsAvailable >>

\* C11: score, level and the list of reason codes depend only on the four
\* source flags: they equal those of the base fixture carrying the same flags,
\* whatever the signal counts, networkSignals.available and unavailableReason
\* are; unavailableReason changes only the NETWORK_SIGNALS_UNAVAILABLE message.
C11_ConfidenceDependsOnlyOnSourceFlags ==
    ConfCalled =>
        LET reference == deriveConfidence(WithSourceFlags(baseFixture, SourceFlagsOf(input)))
        IN  /\ LastConf.score = reference.score
            /\ LastConf.level = reference.level
            /\ ReasonCodes(LastConf) = ReasonCodes(reference)
            /\ \A i \in DOMAIN LastConf.reasons :
                  LastConf.reasons[i].code # "NETWORK_SIGNALS_UNAVAILABLE"
                      => LastConf.reasons[i] = reference.reasons[i]

\* The network source flag and networkSignals.available disagree, the counts
\* and the reason differ from the base fixture's.
C11_Witness ==
    /\ ConfCalled
    /\ input.networkSignalsAvailable
    /\ ~input.available
    /\ input.unavailableReason = "NETWORK_PERMISSION_BLOCKED"
    /\ input.thirdPartyScriptDomainCount = 30
    /\ LastConf.score = 100
    /\ LastConf.reasons = << >>

\* The reason code a false source flag stands for, and its penalty.
ReasonCodeOf(flag) ==
    CASE flag = "contentReachable" -> "CONTENT_UNREACHABLE"
      [] flag = "contentSignalsAvailable" -> "CONTENT_SIGNALS_UNAVAILABLE"
      [] flag = "cookieSignalsAvailable" -> "COOKIE_SIGNALS_UNAVAILABLE"
      [] flag = "networkSignalsAvailable" -> "NETWORK_SIGNALS_UNAVAILABLE"

ReasonPenalty(code) ==
    CASE code = "CONTENT_UNREACHABLE" -> 20
      [] code = "CONTENT_SIGNALS_UNAVAILABLE" -> 35
      [] code = "COOKIE_SIGNALS_UNAVAILABLE" -> 20
      [] code = "NETWORK_SIGNALS_UNAVAILABLE" -> 25

RECURSIVE SumOfReasonPenalties(_, _)
SumOfReasonPenalties(reasons, n) ==
    IF n = 0 THEN 0
    ELSE SumOfReasonPenalties(reasons, n - 1) + ReasonPenalty(reasons[n].code)

\* The codes of the false flags among the given flags, in the given order.
RECURSIVE CodesOfFalseFlags(_, _)
CodesOfFalseFlags(flags, n) ==
    IF n = 0 THEN << >>
    ELSE CodesOfFalseFlags(flags, n - 1)
         \o (IF input[flags[n]] THEN << >> ELSE << ReasonCodeOf(flags[n]) >>)

\* C21: reasons holds exactly one entry per false source flag and no other, in
\* the order CONTENT_UNREACHABLE, CONTENT_SIGNALS_UNAVAILABLE,
\* COOKIE_SIGNALS_UNAVAILABLE, NETWORK_SIGNALS_UNAVAILABLE (not by penalty
\* size); it is empty iff all four flags are true, and score = 100 minus the
\* sum of the listed reasons' penalties.
C21_ReasonsInRuleOrder ==
    ConfCalled =>
        /\ ReasonCodes(LastConf)
             = CodesOfFalseFlags(<< "contentReachable", "contentSignalsAvailable",
                                    "cookieSignalsAvailable", "networkSignalsAvailable" >>, 4)
        /\ (LastConf.reasons = << >>) <=> (\A flag \in SourceFlagFields : input[flag])
        /\ LastConf.score
             = 100 - SumOfReasonPenalties(LastConf.reasons, Len(LastConf.reasons))

\* The 20-point reason stands before the 35-point one.
C21_Witness ==
    /\ ConfCalled
    /\ ~input.contentReachable
    /\ ~input.contentSignalsAvailable
    /\ input.cookieSignalsAvailable
    /\ input.networkSignalsAvailable
    /\ ReasonCodes(LastConf) = << "CONTENT_UNREACHABLE", "CONTENT_SIGNALS_UNAVAILABLE" >>
    /\ LastConf.score = 45

(***************************************************************************)
(* Properties of the recommendation generator                              *)
(***************************************************************************)
RecCalled == recOut # << >>

LastRec == recOut[Len(recOut)]

Threw(outcome) == "thrown" \in DOMAIN outcome

RecReturned == RecCalled /\ ~Threw(LastRec)

\* The risk items of the input whose id maps to the action.
ItemsMappedTo(actionId) ==
    { i \in DOMAIN recIn :
        \E k \in DOMAIN lookupActionIds(recIn[i].id) :
            lookupActionIds(recIn[i].id)[k] = actionId }

\* C12: for any list of risk items (any ids, severities and priorities,
\* repeats allowed) generateRecommendations returns a list in which no two
\* recommendations share an actionId and every recommendation has a non-empty
\* triggeredByRiskIds.
C12_ReturnsDeduplicatedList ==
    RecCalled =>
        /\ ~Threw(LastRec)
        /\ LET recs == LastRec.recommendations
           IN  /\ \A i, j \in DOMAIN recs : recs[i].actionId = recs[j].actionId => i = j
               /\ \A i \in DOMAIN recs : recs[i].triggeredByRiskIds # << >>

\* high before medium before low; p1 before p2 before p3.
SeverityRank(severity) ==
    CASE severity = "high" -> 1 [] severity = "medium" -> 2 [] severity = "low" -> 3

PriorityRank(priority) ==
    CASE priority = "p1" -> 1 [] priority = "p2" -> 2 [] priority = "p3" -> 3

\* C13: each recommendation's severity is the most severe (high before medium
\* before low) among the severities of all risk items of the input whose id
\* maps to its action, wherever in the list those items stand.
C13_SeverityIsMostSevere ==
    RecReturned =>
        \A r \in DOMAIN LastRec.recommendations :
            LET rec == LastRec.recommendations[r]
                mapped == ItemsMappedTo(rec.actionId)
            IN  /\ mapped # {}
                /\ \E i \in mapped : recIn[i].severity = rec.severity
                /\ \A i \in mapped :
                      SeverityRank(rec.severity) <= SeverityRank(recIn[i].severity)

\* A less severe item comes first, a more severe one for the same action later.
C13_Witness ==
    /\ RecReturned
    /\ Len(recIn) = 3
    /\ recIn[1].id = "third_party_cookie_volume" /\ recIn[1].severity = "low"
    /\ recIn[2].id = "overall_score_high" /\ recIn[2].severity = "high"
    /\ recIn[3].id = "third_party_cookie_volume" /\ recIn[3].severity = "medium"
    /\ \E r \in DOMAIN LastRec.recommendations :
          /\ LastRec.recommendations[r].actionId = "reduce_third_party_cookies"
          /\ LastRec.recommendations[r].severity = "high"

\* C14: each recommendation's priority is the most urgent (p1 before p2 before
\* p3) among the action's catalog defaultPriority and the mitigationPriority of
\* every risk item mapped to the action; it is never less urgent than the
\* catalog default, so an action whose default is p1 is always emitted as p1.
C14_PriorityIsMostUrgent ==
    RecReturned =>
        \A r \in DOMAIN LastRec.recommendations :
            LET rec == LastRec.recommendations[r]
                default == RECOMMENDATION_CATALOG[rec.actionId].defaultPriority
                candidates == { default }
                                 \cup { recIn[i].mitigationPriority :
                                          i \in ItemsMappedTo(rec.actionId) }
            IN  /\ rec.priority \in candidates
                /\ \A p \in candidates : PriorityRank(rec.priority) <= PriorityRank(p)
                /\ PriorityRank(rec.priority) <= PriorityRank(default)
                /\ default = "p1" => rec.priority = "p1"

\* A p1-default action triggered by p3 risks only stays p1, and a p2-default
\* action triggered by a p1 risk becomes p1.
C14_Witness ==
    /\ RecReturned
    /\ Len(recIn) = 2
    /\ recIn[1].id = "third_party_cookie_volume" /\ recIn[1].mitigationPriority = "p3"
    /\ recIn[2].id = "persistent_storage_footprint" /\ recIn[2].mitigationPriority = "p1"
    /\ \A r \in DOMAIN LastRec.recommendations :
          LastRec.recommendations[r].priority = "p1"
    /\ Len(LastRec.recommendations) = 2

\* C15: the returned list is sorted by severity (high, medium, low), then by
\* priority (p1, p2, p3), then by actionId in lexicographic order, strictly:
\* no two adjacent recommendations compare equal.
C15_SortedStrictly ==
    RecReturned =>
        LET recs == LastRec.recommendations
        IN  \A i \in 1 .. (Len(recs) - 1) :
                LET a == recs[i]
                    b == recs[i + 1]
                IN  \/ SeverityRank(a.severity) < SeverityRank(b.severity)
                    \/ /\ a.severity = b.severity
                       /\ PriorityRank(a.priority) < PriorityRank(b.priority)
                    \/ /\ a.severity = b.severity
                       /\ a.priority = b.priority
                       /\ localeRank(a.actionId) < localeRank(b.actionId)

\* Five recommendations of one severity: the p1 ones in actionId order, then
\* the p2 ones, although "limit..." sorts before "reduce...".
C15_Witness ==
    /\ RecReturned
    /\ Len(LastRec.recommendations) = 5
    /\ \A r \in DOMAIN LastRec.recommendations :
          LastRec.recommendations[r].severity = "medium"
    /\ LastRec.recommendations[3].actionId = "reduce_third_party_cookies"
    /\ LastRec.recommendations[3].priority = "p1"
    /\ LastRec.recommendations[4].actionId = "limit_third_party_scripts"
    /\ LastRec.recommendations[4].priority = "p2"

ActionsOf(outcome) ==
    { outcome.recommendations[r].actionId : r \in DOMAIN outcome.recommendations }

CatalogActionIds ==
    { "reduce_third_party_cookies", "limit_third_party_scripts",
      "clear_site_storage_data", "block_known_trackers",
      "review_tracking_permissions", "harden_network_privacy" }

\* C22: each recommendation's triggeredByRiskIds is exactly the set of distinct
\* ids of the input risk items that map to its action (none missing, none
\* extra, none repeated even when the input repeats an item), in ascending
\* lexicographic order; an action is emitted iff at least one input risk item
\* maps to it.
C22_TriggeredByIsSortedSetOfMappedIds ==
    RecReturned =>
        /\ \A r \in DOMAIN LastRec.recommendations :
              LET rec == LastRec.recommendations[r]
                  ids == rec.triggeredByRiskIds
              IN  /\ { ids[k] : k \in DOMAIN ids }
                       = { recIn[i].id : i \in ItemsMappedTo(rec.actionId) }
                  /\ \A k \in 1 .. (Len(ids) - 1) :
                        localeRank(ids[k]) < localeRank(ids[k + 1])
        /\ ActionsOf(LastRec) = { a \in CatalogActionIds : ItemsMappedTo(a) # {} }

\* One risk item twice and a second one whose id sorts before it but comes
\* later in the input.
C22_Witness ==
    /\ RecReturned
    /\ Len(recIn) = 3
    /\ recIn[1].id = "tracking_indicator_density"
    /\ recIn[2].id = "tracking_indicator_density"
    /\ recIn[3].id = "overall_score_high"
    /\ \E r \in DOMAIN LastRec.recommendations :
          /\ LastRec.recommendations[r].actionId = "block_known_trackers"
          /\ LastRec.recommendations[r].triggeredByRiskIds
               = << "overall_score_high", "tracking_indicator_density" >>

\* The ids that have an entry in the risk-to-action table.
MappedRiskIds ==
    { "overall_score_high", "third_party_cookie_volume", "third_party_script_domains",
      "persistent_storage_footprint", "tracking_indicator_density",
      "network_heavy_third_party_requests", "network_suspicious_endpoint_repetition",
      "network_tracker_domain_concentration", "network_short_window_burst" }

WithoutUnmappedItems(items) == SelectSeq(items, LAMBDA item : item.id \in MappedRiskIds)

\* C23: risk items whose id has no entry in the risk-to-action map contribute
\* nothing: the output equals the output for the list with those items
\* removed, and a list made only of unmapped ids yields an empty
\* recommendations list.
C23_UnmappedItemsContributeNothing ==
    RecCalled =>
        /\ LastRec = generateRecommendations([ riskItems |-> WithoutUnmappedItems(recIn) ])
        /\ WithoutUnmappedItems(recIn) = << >> =>
              /\ ~Threw(LastRec)
              /\ LastRec.recommendations = << >>

\* The list of risk items rearranged by a permutation of its positions.
Rearranged(items, p) == [ i \in DOMAIN items |-> items[p[i]] ]

\* C26: generateRecommendations does not depend on the order of riskItems: for
\* any list and any permutation of it the two outcomes are equal (same
\* actions, same severity, priority and triggeredByRiskIds, same list order).
C26_OrderOfRiskItemsIrrelevant ==
    RecCalled =>
        \A p \in Permutations(DOMAIN recIn) :
            generateRecommendations([ riskItems |-> Rearranged(recIn, p) ]) = LastRec

\* Three different items that share actions, given in an order that is neither
\* the sorted order of their ids nor of their severities.
C26_Witness ==
    /\ RecReturned
    /\ Len(recIn) = 3
    /\ recIn[1].id = "tracking_indicator_density" /\ recIn[1].severity = "low"
    /\ recIn[2].id = "overall_score_high" /\ recIn[2].severity = "medium"
    /\ recIn[3].id = "network_heavy_third_party_requests" /\ recIn[3].severity = "high"
    /\ Len(LastRec.recommendations) = 3
    /\ LastRec.recommendations[1].triggeredByRiskIds
         = << "network_heavy_third_party_requests", "overall_score_high",
              "tracking_indicator_density" >>

(***************************************************************************)
(* Properties of the pipeline                                              *)
(***************************************************************************)
PipelineRan == scoreOut # << >> /\ riskOut # << >> /\ recOut # << >>

NonNegativeCounts == \A field \in NumericFields : input[field] >= 0

ActionIdsOf(outcome) ==
    [ i \in DOMAIN outcome.recommendations |-> outcome.recommendations[i].actionId ]

\* C17: for the input with 30 script domains, 80 cookies, 7,500,000 storage
\* bytes, tracking hits summing to 42, network counts 80/25/12/30 and all
\* sources available, the pipeline gives totalPenalty 100.00, score 0.00,
\* overallRisk high, riskItems with all nine threshold rules and no
\* network_signals_unavailable item, and all six catalog actions: the three
\* high/p1 ones (block_known_trackers, harden_network_privacy,
\* reduce_third_party_cookies) before the three medium/p2 ones
\* (clear_site_storage_data, limit_third_party_scripts,
\* review_tracking_permissions).
C17_HighRiskEndToEnd ==
    (PipelineRan /\ input = highRiskFixture) =>
        /\ LastScore.totalPenalty = Hundredths(100)
        /\ LastScore.score = 0
        /\ LastRisk.overallRisk = "high"
        /\ RiskIds(LastRisk) = { RISK_RULES[i].id : i \in DOMAIN RISK_RULES }
        /\ Len(LastRisk.riskItems) = 9
        /\ ~Threw(LastRec)
        /\ ActionIdsOf(LastRec)
             = << "block_known_trackers", "harden_network_privacy",
                  "reduce_third_party_cookies", "clear_site_storage_data",
                  "limit_third_party_scripts", "review_tracking_permissions" >>
        /\ \A i \in 1 .. 3 :
              /\ LastRec.recommendations[i].severity = "high"
              /\ LastRec.recommendations[i].priority = "p1"
        /\ \A i \in 4 .. 6 :
              /\ LastRec.recommendations[i].severity = "medium"
              /\ LastRec.recommendations[i].priority = "p2"

C17_Witness ==
    /\ PipelineRan
    /\ input = highRiskFixture
    /\ input.thirdPartyScriptDomainCount = 30
    /\ input.thirdPartyCookieEstimateCount = 80
    /\ input.localStorageApproxBytes + input.sessionStorageApproxBytes = 7500000
    /\ input.trackerDomainHitCount + input.endpointPatternHitCount
         + input.trackingQueryParamCount = 42
    /\ << input.thirdPartyRequestCount, input.suspiciousEndpointHitCount,
          input.knownTrackerDomainHitCount, input.shortWindowBurstCount >>
         = << 80, 25, 12, 30 >>
    /\ \A flag \in SourceFlagFields : input[flag]
    /\ input.available
    /\ Len(LastRec.recommendations) = 6

\* C24: in the composed pipeline, counts being non-negative integers,
\* overall_score_high never fires alone: whenever it is in riskItems at least
\* one of the other eight threshold rules is too, and with every signal below
\* its rule threshold the score stays above 40.
C24_OverallScoreHighNeverAlone ==
    (PipelineRan /\ NonNegativeCounts) =>
        /\ "overall_score_high" \in RiskIds(LastRisk) =>
              \E id \in RiskIds(LastRisk) :
                  id \notin { "overall_score_high", "network_signals_unavailable" }
        /\ RiskIds(LastRisk) \subseteq { "network_signals_unavailable" } =>
              LastScore.score > Hundredths(40)

\* overall_score_high fires with a single other rule: 20 script domains and
\* every other signal just below its threshold.
C24_Witness ==
    /\ PipelineRan
    /\ NonNegativeCounts
    /\ RiskIds(LastRisk) = { "overall_score_high", "third_party_script_domains" }
    /\ input.thirdPartyCookieEstimateCount = 24
    /\ input.localStorageApproxBytes + input.sessionStorageApproxBytes = 1999999


(***************************************************************************)
(* Properties of the action queue                                          *)
(***************************************************************************)
ResultIds(q) == [ i \in DOMAIN q.results |-> q.results[i].actionId ]

FirstOccurrence(seq, x) ==
    CHOOSE i \in DOMAIN seq : seq[i] = x /\ \A j \in 1..(i - 1) : seq[j] # x

\* ids holds every member of selected once, in the order in which the
\* members first occur in selected.
InOrderOfFirstOccurrence(ids, selected) ==
    /\ Range(ids) = Range(selected)
    /\ \A i, j \in DOMAIN ids :
          i < j => FirstOccurrence(selected, ids[i]) < FirstOccurrence(selected, ids[j])

QueueResolved == queue.pc = "resolved"

QueueNeverRejectsAndIsolatesFailures ==
    /\ queue.pc # "rejected"
    /\ Cardinality(queue.running) <= 1
    /\ QueueResolved =>
          /\ InOrderOfFirstOccurrence(ResultIds(queue), queue.selectedActionIds)
          /\ Len(queue.handled) = Len(queue.results)
          /\ \A i \in DOMAIN queue.results :
                /\ queue.handled[i].actionId = queue.results[i].actionId
                /\ (queue.handled[i].did = "unregistered")
                       <=> (queue.results[i].actionId \notin queue.registry)
                /\ queue.handled[i].did = "unregistered"
                       => queue.results[i].status = "skipped"
                /\ queue.handled[i].did \in { "threw", "rejected" }
                       => queue.results[i].status = "failed"

\* A handler is called only when none is running and every earlier id has
\* been dealt with.
HandlerStartsAfterPreviousSettled ==
    (queue'.running # queue.running /\ queue'.running # {}) =>
        /\ queue.running = {}
        /\ Len(queue.handled) = queue.position - 1

ProcessingExactlyWhileInFlight ==
    /\ Len(popup.inFlight) <= 1
    /\ popup.uiState.isProcessing <=> Len(popup.inFlight) = 1

CallStartsOnlyWhenIdleAndSelected ==
    Len(popup'.inFlight) > Len(popup.inFlight) =>
        /\ ~popup.uiState.isProcessing
        /\ popup.uiState.selectedActionIds # << >>

SettlementEndsProcessing ==
    Len(popup'.inFlight) < Len(popup.inFlight) => ~popup'.uiState.isProcessing

OneFailedEntryForEach(actionResults, actionIds) ==
    /\ \A i \in DOMAIN actionResults :
          /\ actionResults[i].status = "failed"
          /\ actionResults[i].actionId \in Range(actionIds)
    /\ \A actionId \in Range(actionIds) :
          Cardinality({ i \in DOMAIN actionResults :
                          actionResults[i].actionId = actionId }) = 1

SettlementSetsResults ==
    Len(popup'.inFlight) < Len(popup.inFlight) =>
        IF popup'.settled.outcome = "rejected"
        THEN /\ OneFailedEntryForEach(popup'.uiState.actionResults,
                                      popup'.settled.selectedActionIds)
             /\ popup'.uiState.selectedActionIds = popup.uiState.selectedActionIds
        ELSE /\ popup'.uiState.selectedActionIds = << >>
             /\ popup'.uiState.actionResults = popup'.settled.results

\* C30: when executeSelectedActions rejects, actionResults has exactly one
\* "failed" entry for each action id that was passed to that call and the
\* selection is kept; when it resolves the selection is cleared and
\* actionResults equals the returned results; also when the checkboxes are
\* changed while the call is in flight.
C30_SettlementReportsTheIdsPassed == [][SettlementSetsResults]_vars
====
